---------------------------- MODULE Spec2Model ----------------------------
(***************************************************************************)
(* A model of tmux-ai-status (src/main.go, lines 1-989): the polling       *)
(* daemon that infers what a coding agent under a tmux pane is doing and   *)
(* renames the pane's window accordingly.                                  *)
(*                                                                         *)
(* Text.  TLC's strings are atoms, so a Go string is modelled as a         *)
(* sequence of tokens and the empty string as << >>.  The glyphs of the    *)
(* source are named in ASCII:                                              *)
(*    "zzz" idle (U+1F4A4)        "mailbox" unread (U+1F4EC)               *)
(*    "brain" computing (U+1F9E0) "gear" other subprocess (U+2699)         *)
(*    "hammer" build   "testtube" test   "package" package manager         *)
(*    "shuffle" version control   "globe" network                         *)
(*    ">" the codex prompt (U+203A)   ">>" the claude prompt (U+276F)      *)
(*    "..." after a verb stands for the ellipsis of a spinner line         *)
(* A status is <<prefix, glyph>> or <<prefix, glyph, " ", topic>>, with    *)
(* prefix "c " or "x ".                                                    *)
(***************************************************************************)
EXTENDS Integers, Sequences, FiniteSets, TLC

VARIABLES
    statusState,       \* map window -> windowState (applied, pending, count, unread)
    lastActive,        \* map window -> time the window was last seen active
    windowWasWorking,  \* map window -> bool
    windowSeen,        \* map window -> bool
    windowPromptSig,   \* map window -> prompt signature of the last cycle
    windowDoneSig,     \* map window -> completion signature of the last cycle
    windowActiveSig,   \* map window -> tracked active-marker line
    windowActiveAt,    \* map window -> time the tracked line was first seen
    windowTopic,       \* map window -> remembered topic word
    now,               \* the clock read by time.Now()
    threshold,         \* the configured stabilityThreshold
    hc,                \* record of the last direct call on the status record
    cyc,               \* record of the last cycle of updateAllPanes
    fin,               \* arguments of a function under evaluation
    fout               \* its result

vars == <<statusState, lastActive, windowWasWorking, windowSeen, windowPromptSig,
          windowDoneSig, windowActiveSig, windowActiveAt, windowTopic, now,
          threshold, hc, cyc, fin, fout>>

memory == <<lastActive, windowWasWorking, windowSeen, windowPromptSig,
            windowDoneSig, windowActiveSig, windowActiveAt, windowTopic>>

---------------------------------------------------------------------------
(* Go strings and maps *)

Empty == << >>

\* strings.HasSuffix(s, glyph) for a one-token suffix
HasSuffix(s, tok) == Len(s) > 0 /\ s[Len(s)] = tok

\* strings.HasPrefix(s, tok) for a one-token prefix
HasPrefix(s, tok) == Len(s) > 0 /\ s[1] = tok

\* strings.TrimSuffix(s, tok)
TrimSuffix(s, tok) == IF HasSuffix(s, tok) THEN SubSeq(s, 1, Len(s) - 1) ELSE s

\* strings.TrimPrefix(s, tok)
TrimPrefix(s, tok) == IF HasPrefix(s, tok) THEN SubSeq(s, 2, Len(s)) ELSE s

\* unicode.IsSpace on a token
IsSpace(tok) == tok \in {" ", "\n", "\t"}

RECURSIVE TrimLeft(_)
TrimLeft(s) == IF Len(s) > 0 /\ IsSpace(s[1]) THEN TrimLeft(Tail(s)) ELSE s

RECURSIVE TrimRight(_)
TrimRight(s) ==
    IF Len(s) > 0 /\ IsSpace(s[Len(s)]) THEN TrimRight(SubSeq(s, 1, Len(s) - 1)) ELSE s

\* strings.TrimSpace(s)
TrimSpace(s) == TrimRight(TrimLeft(s))

\* m[k] of a Go map: the zero value when the key is absent
Get(m, k, zero) == IF k \in DOMAIN m THEN m[k] ELSE zero

\* m[k] = v
Put(m, k, v) == [x \in DOMAIN m \cup {k} |-> IF x = k THEN v ELSE m[x]]

\* delete(m, k)
Delete(m, k) == [x \in DOMAIN m \ {k} |-> m[x]]

\* the map cleanup loops: delete every key not in keep
Prune(m, keep) == [x \in DOMAIN m \cap keep |-> m[x]]

EmptyMap == [x \in {} |-> FALSE]

---------------------------------------------------------------------------
(* Program constants *)

stabilityThreshold == 1

activeGrace == 10

staleActiveThreshold == 12

PollInterval == 2

\* the zero windowState
ZeroState == [applied |-> Empty, pending |-> Empty, count |-> 0, unread |-> FALSE]

---------------------------------------------------------------------------
(* Status predicates *)

isWorkingStatus(status) == status # Empty /\ ~HasSuffix(status, "zzz")

statusPriority(status) ==
    IF isWorkingStatus(status) THEN 2
    ELSE IF status # Empty THEN 1
    ELSE 0

formatStatusWithTopic(status, topic) ==
    IF status = Empty \/ topic = Empty THEN status
    ELSE status \o <<" ">> \o topic

---------------------------------------------------------------------------
(* The unread flag of the window status record *)

markUnread(ss, window) ==
    Put(ss, window, [Get(ss, window, ZeroState) EXCEPT !.unread = TRUE])

\* Faulty variant of clearUnread: the flag is left as it is
clearUnreadKept(ss, window) == ss

\* Faulty variant of clearUnread: the flag of every window is cleared
clearUnreadEverywhere(ss, window) ==
    IF window \in DOMAIN ss
    THEN [w \in DOMAIN ss |-> [ss[w] EXCEPT !.unread = FALSE]]
    ELSE ss

clearUnread(ss, window) ==
    IF window \in DOMAIN ss
    THEN [ss EXCEPT ![window].unread = FALSE]
    ELSE ss

isUnread(ss, window) ==
    IF window \in DOMAIN ss THEN ss[window].unread ELSE FALSE

\* Faulty variant of hasPromptText: the bare codex glyph counts as text
hasPromptTextOrGlyph(promptSig) ==
    IF promptSig = Empty THEN FALSE
    ELSE IF HasPrefix(promptSig, "codex:")
    THEN TrimSpace(TrimPrefix(promptSig, "codex:")) # Empty
    ELSE IF HasPrefix(promptSig, "claude:")
    THEN LET p == TrimSpace(TrimPrefix(promptSig, "claude:"))
         IN  p # Empty /\ p # <<">>">>
    ELSE FALSE

hasPromptText(promptSig) ==
    IF promptSig = Empty THEN FALSE
    ELSE IF HasPrefix(promptSig, "codex:")
    THEN LET p == TrimSpace(TrimPrefix(promptSig, "codex:"))
         IN  p # Empty /\ p # <<">">>
    ELSE IF HasPrefix(promptSig, "claude:")
    THEN LET p == TrimSpace(TrimPrefix(promptSig, "claude:"))
         IN  p # Empty /\ p # <<">>">>
    ELSE FALSE

\* Faulty variants of shouldMarkUnread.
\* the focus of the window is not looked at
shouldMarkUnreadFocused(wasWorking, focused, isWorking, rawStatus, seenBefore, promptSig, prevPromptSig, doneSig, prevDoneSig) ==
    IF isWorking \/ rawStatus = Empty THEN FALSE
    ELSE IF wasWorking THEN TRUE
    ELSE IF ~seenBefore THEN hasPromptText(promptSig)
    ELSE IF doneSig # Empty /\ doneSig # prevDoneSig THEN TRUE
    ELSE IF promptSig # Empty /\ promptSig # prevPromptSig THEN TRUE
    ELSE FALSE

\* a prompt marks unread whether it changed or not
shouldMarkUnreadAnyPrompt(wasWorking, focused, isWorking, rawStatus, seenBefore, promptSig, prevPromptSig, doneSig, prevDoneSig) ==
    IF focused \/ isWorking \/ rawStatus = Empty THEN FALSE
    ELSE IF wasWorking THEN TRUE
    ELSE IF ~seenBefore THEN hasPromptText(promptSig)
    ELSE IF doneSig # Empty /\ doneSig # prevDoneSig THEN TRUE
    ELSE IF promptSig # Empty THEN TRUE
    ELSE FALSE

\* the end of work does not mark unread
shouldMarkUnreadNoWork(wasWorking, focused, isWorking, rawStatus, seenBefore, promptSig, prevPromptSig, doneSig, prevDoneSig) ==
    IF focused \/ isWorking \/ rawStatus = Empty THEN FALSE
    ELSE IF ~seenBefore THEN hasPromptText(promptSig)
    ELSE IF doneSig # Empty /\ doneSig # prevDoneSig THEN TRUE
    ELSE IF promptSig # Empty /\ promptSig # prevPromptSig THEN TRUE
    ELSE FALSE

shouldMarkUnread(wasWorking, focused, isWorking, rawStatus, seenBefore, promptSig, prevPromptSig, doneSig, prevDoneSig) ==
    IF focused \/ isWorking \/ rawStatus = Empty THEN FALSE
    ELSE IF wasWorking THEN TRUE
    ELSE IF ~seenBefore THEN hasPromptText(promptSig)
    ELSE IF doneSig # Empty /\ doneSig # prevDoneSig THEN TRUE
    ELSE IF promptSig # Empty /\ promptSig # prevPromptSig THEN TRUE
    ELSE FALSE

---------------------------------------------------------------------------
(* Hysteresis: setWindowStatus *)

\* Faulty variant of RenameCall: the window is renamed to the empty status
RenameCallAlways(window, status) ==
    [cmd |-> "rename-window", window |-> window, name |-> status]

\* the tmux command run by a commit
RenameCall(window, status) ==
    IF status # Empty
    THEN [cmd |-> "rename-window", window |-> window, name |-> status]
    ELSE [cmd |-> "automatic-rename", window |-> window, name |-> Empty]

\* Faulty variants of setWindowStatus, which the properties of the
\* hysteresis must tell from it.
\* commits one call early
setWindowStatusEarly(ss, window, status) ==
    LET ws == Get(ss, window, ZeroState)
    IN  IF status = ws.applied
        THEN [ss    |-> Put(ss, window, [ws EXCEPT !.pending = Empty, !.count = 0]),
              calls |-> << >>]
        ELSE LET cand == IF status = ws.pending
                         THEN [ws EXCEPT !.count = ws.count + 1]
                         ELSE [ws EXCEPT !.pending = status, !.count = 1]
             IN  IF cand.count + 1 < threshold
                 THEN [ss |-> Put(ss, window, cand), calls |-> << >>]
                 ELSE [ss    |-> Put(ss, window,
                                     [cand EXCEPT !.applied = status,
                                                  !.pending = Empty,
                                                  !.count = 0]),
                       calls |-> <<RenameCall(window, status)>>]

\* counts every call that differs from applied, whatever the candidate was
setWindowStatusCounting(ss, window, status) ==
    LET ws == Get(ss, window, ZeroState)
    IN  IF status = ws.applied
        THEN [ss    |-> Put(ss, window, [ws EXCEPT !.pending = Empty, !.count = 0]),
              calls |-> << >>]
        ELSE LET cand == [ws EXCEPT !.pending = status, !.count = ws.count + 1]
             IN  IF cand.count < threshold
                 THEN [ss |-> Put(ss, window, cand), calls |-> << >>]
                 ELSE [ss    |-> Put(ss, window,
                                     [cand EXCEPT !.applied = status,
                                                  !.pending = Empty,
                                                  !.count = 0]),
                       calls |-> <<RenameCall(window, status)>>]

\* keeps the candidate when the applied status is seen again
setWindowStatusKeeping(ss, window, status) ==
    LET ws == Get(ss, window, ZeroState)
    IN  IF status = ws.applied
        THEN [ss |-> Put(ss, window, ws), calls |-> << >>]
        ELSE LET cand == IF status = ws.pending
                         THEN [ws EXCEPT !.count = ws.count + 1]
                         ELSE [ws EXCEPT !.pending = status, !.count = 1]
             IN  IF cand.count < threshold
                 THEN [ss |-> Put(ss, window, cand), calls |-> << >>]
                 ELSE [ss    |-> Put(ss, window,
                                     [cand EXCEPT !.applied = status,
                                                  !.pending = Empty,
                                                  !.count = 0]),
                       calls |-> <<RenameCall(window, status)>>]

\* commits one call late
setWindowStatusLate(ss, window, status) ==
    LET ws == Get(ss, window, ZeroState)
    IN  IF status = ws.applied
        THEN [ss    |-> Put(ss, window, [ws EXCEPT !.pending = Empty, !.count = 0]),
              calls |-> << >>]
        ELSE LET cand == IF status = ws.pending
                         THEN [ws EXCEPT !.count = ws.count + 1]
                         ELSE [ws EXCEPT !.pending = status, !.count = 1]
             IN  IF cand.count <= threshold
                 THEN [ss |-> Put(ss, window, cand), calls |-> << >>]
                 ELSE [ss    |-> Put(ss, window,
                                     [cand EXCEPT !.applied = status,
                                                  !.pending = Empty,
                                                  !.count = 0]),
                       calls |-> <<RenameCall(window, status)>>]

\* The record after the call and the external calls it made (none or one).
setWindowStatus(ss, window, status) ==
    LET ws == Get(ss, window, ZeroState)
    IN  IF status = ws.applied
        THEN [ss    |-> Put(ss, window, [ws EXCEPT !.pending = Empty, !.count = 0]),
              calls |-> << >>]
        ELSE LET cand == IF status = ws.pending
                         THEN [ws EXCEPT !.count = ws.count + 1]
                         ELSE [ws EXCEPT !.pending = status, !.count = 1]
             IN  IF cand.count < threshold
                 THEN [ss |-> Put(ss, window, cand), calls |-> << >>]
                 ELSE [ss    |-> Put(ss, window,
                                     [cand EXCEPT !.applied = status,
                                                  !.pending = Empty,
                                                  !.count = 0]),
                       calls |-> <<RenameCall(window, status)>>]

---------------------------------------------------------------------------
(* Pane text.  A capture is a sequence of lines (strings.Split on "\n"),   *)
(* a line a sequence of tokens.  What a token contains, as far as the      *)
(* classifiers look, is tabulated below for the vocabulary of the model.   *)

ScanDepth == 12

DoneScanDepth == 20

TopicScanDepth == 24

topicMaxRunes == 8

SpinnerGlyphs == {"mdot", "bullet", "cross", "star", "*"}

\* the marker substrings a token contains
Sub(tok) ==
    CASE tok = "(esc to interrupt)" -> {"esc to interrupt"}
      [] tok = "Thinking..."        -> {"ing..."}
      [] tok = "Brewing..."         -> {"ing..."}
      [] OTHER                      -> {}

\* strings.Contains(line, sub)
Contains(line, sub) == \E i \in 1..Len(line) : sub \in Sub(line[i])

\* strings.HasPrefix(line, a + " ")
HasPrefixSp(line, a) == Len(line) >= 2 /\ line[1] = a /\ line[2] = " "

hasSpinnerMarker(line) == \E g \in SpinnerGlyphs : HasPrefixSp(line, g)

hasActiveMarker(line) ==
    IF Contains(line, "esc to interrupt") THEN TRUE
    ELSE IF ~hasSpinnerMarker(line) THEN FALSE
    ELSE Contains(line, "ing...")

isCompletionLine(line) ==
    \/ HasPrefixSp(line, "-Worked for")
    \/ line = <<"Done.">> \/ HasPrefixSp(line, "Done.")
    \/ line = <<"All set.">> \/ HasPrefixSp(line, "All set.")

\* Faulty variant of classifyScan: a completion line does not end the scan
RECURSIVE classifyScanPastDone(_, _, _)
classifyScanPastDone(lines, i, checked) ==
    IF i < 1 \/ checked >= ScanDepth THEN FALSE
    ELSE LET line == TrimSpace(lines[i])
         IN  IF line = Empty THEN classifyScanPastDone(lines, i - 1, checked)
             ELSE IF hasActiveMarker(line) THEN TRUE
             ELSE classifyScanPastDone(lines, i - 1, checked + 1)

RECURSIVE classifyScan(_, _, _)
classifyScan(lines, i, checked) ==
    IF i < 1 \/ checked >= ScanDepth THEN FALSE
    ELSE LET line == TrimSpace(lines[i])
         IN  IF line = Empty THEN classifyScan(lines, i - 1, checked)
             ELSE IF isCompletionLine(line) THEN FALSE
             ELSE IF hasActiveMarker(line) THEN TRUE
             ELSE classifyScan(lines, i - 1, checked + 1)

\* TRUE if the pane content indicates active work
classifyPaneContent(content) == classifyScan(content, Len(content), 0)

RECURSIVE activeSigScan(_, _, _)
activeSigScan(lines, i, checked) ==
    IF i < 1 \/ checked >= ScanDepth THEN Empty
    ELSE LET line == TrimSpace(lines[i])
         IN  IF line = Empty THEN activeSigScan(lines, i - 1, checked)
             ELSE IF hasActiveMarker(line) THEN line
             ELSE activeSigScan(lines, i - 1, checked + 1)

classifyPaneActiveSignature(content) == activeSigScan(content, Len(content), 0)

RECURSIVE promptScan(_, _, _)
promptScan(lines, i, checked) ==
    IF i < 1 \/ checked >= ScanDepth THEN Empty
    ELSE LET line == TrimSpace(lines[i])
         IN  IF line = Empty THEN promptScan(lines, i - 1, checked)
             ELSE IF HasPrefixSp(line, ">") \/ line = <<">">>
                  THEN <<"codex:">> \o line
             ELSE IF HasPrefixSp(line, ">>") \/ line = <<">>">>
                  THEN <<"claude:">> \o line
             ELSE promptScan(lines, i - 1, checked + 1)

detectPromptSignature(content) == promptScan(content, Len(content), 0)

\* Faulty variant of classifyPaneAttentionSignature: activity is not asked
classifyPaneAttentionSignatureAnyway(content) == detectPromptSignature(content)

classifyPaneAttentionSignature(content) ==
    IF classifyPaneContent(content) THEN Empty
    ELSE detectPromptSignature(content)

classifyPaneNeedsAttention(content) ==
    classifyPaneAttentionSignature(content) # Empty

RECURSIVE doneScan(_, _, _)
doneScan(lines, i, checked) ==
    IF i < 1 \/ checked >= DoneScanDepth THEN Empty
    ELSE LET line == TrimSpace(lines[i])
         IN  IF line = Empty THEN doneScan(lines, i - 1, checked)
             ELSE IF isCompletionLine(line) THEN line
             ELSE doneScan(lines, i - 1, checked + 1)

classifyPaneCompletionSignature(content) == doneScan(content, Len(content), 0)

---------------------------------------------------------------------------
(* The topic word.  Inside these operators a word is one atom and the      *)
(* empty word is "".                                                       *)

topicStopWords ==
    {"a", "an", "and", "are", "as", "at", "be", "by",
     "do", "for", "from", "i", "if", "in", "into", "is",
     "it", "its", "me", "my", "now", "of", "on", "or",
     "our", "please", "run", "show", "that", "the", "this",
     "to", "up", "us", "we", "with", "your",
     "app", "page", "file", "issue", "task",
     "filename", "codebase", "change", "changes", "commit", "commits", "current",
     "add", "check", "create", "deploy", "explain", "fix",
     "make", "remove", "summarize", "update", "write",
     "clean", "debug", "improve", "investigate", "refactor",
     "test", "tests", "work",
     "thinking", "planning", "implementing", "accomplishing",
     "brewing", "leavening", "perusing", "pondering", "transfiguring"}

\* topicAlias[raw], or "" when raw has no alias
topicAlias(raw) ==
    CASE raw \in {"auth", "authentication", "authorize", "login", "signin", "oauth"} -> "auth"
      [] raw \in {"nav", "navbar", "navigation"} -> "nav"
      [] raw \in {"menu", "menus", "hamburger", "drawer"} -> "menu"
      [] raw \in {"search", "query"} -> "search"
      [] raw \in {"shop", "checkout", "cart", "payment", "shipping", "parser",
                  "db", "sql", "api", "cache", "deploy", "promo", "image", "scrape"} -> raw
      [] raw \in {"promotions", "campaign"} -> "promo"
      [] raw \in {"images", "photo"} -> "image"
      [] raw = "crawler" -> "scrape"
      [] raw = "database" -> "db"
      [] raw = "redis" -> "cache"
      [] raw = "release" -> "deploy"
      [] OTHER -> ""

topicPreferred ==
    {"auth", "nav", "menu", "search", "shop", "promo",
     "checkout", "cart", "payment", "shipping",
     "parser", "scrape", "db", "api", "cache", "deploy"}

\* the words tokenizeTopicWords finds in the lower-cased token
WordsOf(tok) ==
    CASE tok = "Thinking..."        -> <<"thinking">>
      [] tok = "Brewing..."         -> <<"brewing">>
      [] tok = "(esc to interrupt)" -> <<"esc", "to", "interrupt">>
      [] tok = "Done."              -> <<"done">>
      [] tok = "All set."           -> <<"all", "set">>
      [] tok = "-Worked for"        -> <<"worked", "for">>
      [] tok = "Explain"            -> <<"explain">>
      [] tok = "/review"            -> <<"review">>
      [] tok \in {"1m", "this", "codebase", "fix", "login", "auth", "42",
                  "deployment", "menu", "bug", "testing"} -> <<tok>>
      [] OTHER                      -> << >>

\* tokens that start with "/" and are longer than it
SlashTokens == {"/review"}

\* tokens that start with "("
ParenTokens == {"(esc to interrupt)"}

\* len([]rune(word))
RuneLen(word) ==
    CASE word \in {"1m", "42"} -> 2
      [] word \in {"bug", "esc", "all", "set"} -> 3
      [] word \in {"auth", "menu", "done"} -> 4
      [] word \in {"review", "worked"} -> 6
      [] word = "testing" -> 7
      [] word \in {"deployme", "interrup"} -> 8
      [] word = "interrupt" -> 9
      [] word = "deployment" -> 10
      [] OTHER -> 5

\* string(r[:topicMaxRunes])
Truncate(word) ==
    CASE word = "deployment" -> "deployme"
      [] word = "interrupt"  -> "interrup"
      [] OTHER               -> word

isNumericWord(word) == word \in {"42"}

trimTopic(token) ==
    IF token = "" THEN ""
    ELSE IF RuneLen(token) > topicMaxRunes THEN Truncate(token)
    ELSE token

normalizeTopicToken(raw) ==
    IF raw = "" \/ isNumericWord(raw) THEN ""
    ELSE IF raw \in topicStopWords THEN ""
    ELSE IF topicAlias(raw) # "" THEN trimTopic(topicAlias(raw))
    ELSE LET token == trimTopic(raw)
         IN  IF token = "" \/ isNumericWord(token) THEN "" ELSE token

maxInt(a, b) == IF a > b THEN a ELSE b

\* idx is the 0-based index of raw among total tokens
topicScore(raw, token, idx, total) ==
    RuneLen(token)
    + (IF token \in topicPreferred THEN 7 ELSE 0)
    + (IF topicAlias(raw) # "" /\ topicAlias(raw) = token THEN 4 ELSE 0)
    - (IF raw \in {"thinking", "brewing", "testing"} THEN 3 ELSE 0)
    + ((idx * 2) \div maxInt(total, 1))

RECURSIVE tokenizeTopicWords(_)
tokenizeTopicWords(text) ==
    IF text = Empty THEN << >>
    ELSE WordsOf(Head(text)) \o tokenizeTopicWords(Tail(text))

\* the first field "/cmd" whose command word survives normalisation
RECURSIVE slashCommand(_, _)
slashCommand(text, i) ==
    IF i > Len(text) THEN ""
    ELSE LET fieldStart == (i = 1 \/ text[i - 1] = " ")
             cmdTokens  == WordsOf(text[i])
             cmd        == IF Len(cmdTokens) > 0
                           THEN normalizeTopicToken(cmdTokens[1]) ELSE ""
         IN  IF fieldStart /\ text[i] \in SlashTokens /\ cmd # ""
             THEN cmd
             ELSE slashCommand(text, i + 1)

\* the best-scoring token from index i on, given the best so far
RECURSIVE bestToken(_, _, _, _)
bestToken(tokens, i, best, bestScore) ==
    IF i > Len(tokens) THEN best
    ELSE LET token == normalizeTopicToken(tokens[i])
             score == topicScore(tokens[i], token, i - 1, Len(tokens))
         IN  IF token # "" /\ score > bestScore
             THEN bestToken(tokens, i + 1, token, score)
             ELSE bestToken(tokens, i + 1, best, bestScore)

extractTopicWord(text) ==
    LET cmd == slashCommand(text, 1)
    IN  IF cmd # "" THEN cmd
        ELSE bestToken(tokenizeTopicWords(text), 1, "", -1)

\* activity[:cut] for cut = strings.Index(activity, " (") > 0
CutParen(activity) ==
    LET cuts == {i \in 2..(Len(activity) - 1) :
                    activity[i] = " " /\ activity[i + 1] \in ParenTokens}
    IN  IF cuts = {} THEN activity
        ELSE SubSeq(activity, 1, (CHOOSE i \in cuts : \A j \in cuts : i <= j) - 1)

RECURSIVE topicScan(_, _, _)
topicScan(lines, i, checked) ==
    IF i < 1 \/ checked >= TopicScanDepth THEN ""
    ELSE LET line == TrimSpace(lines[i])
             next == topicScan(lines, i - 1, checked + 1)
         IN  IF line = Empty THEN topicScan(lines, i - 1, checked)
             ELSE IF HasPrefixSp(line, ">") \/ line = <<">">>
             THEN LET topic == extractTopicWord(TrimSpace(TrimPrefix(line, ">")))
                  IN  IF topic # "" THEN topic ELSE next
             ELSE IF HasPrefixSp(line, ">>") \/ line = <<">>">>
             THEN LET topic == extractTopicWord(TrimSpace(TrimPrefix(line, ">>")))
                  IN  IF topic # "" THEN topic ELSE next
             ELSE IF hasActiveMarker(line)
             THEN LET stripped == IF hasSpinnerMarker(line) /\ Len(line) > 2
                                  THEN TrimSpace(SubSeq(line, 3, Len(line)))
                                  ELSE line
                      topic    == extractTopicWord(CutParen(stripped))
                  IN  IF topic # "" THEN topic ELSE next
             ELSE next

\* the topic as a Go string: << >> or <<word>>
classifyPaneTopic(content) ==
    LET topic == topicScan(content, Len(content), 0)
    IN  IF topic = "" THEN Empty ELSE <<topic>>

---------------------------------------------------------------------------
(* Processes.  /proc is a sequence of entries in os.ReadDir order; an      *)
(* entry holds the three files the daemon reads, each either unreadable    *)
(* (err) or a sequence of tokens.                                          *)

\* strings.ToLower on a token of a command line
Lower(tok) ==
    CASE tok = "Codex"  -> "codex"
      [] tok = "Claude" -> "claude"
      [] OTHER          -> tok

ToLower(s) == [i \in 1..Len(s) |-> Lower(s[i])]

\* the one-word markers a lower-case token of a command line contains
CmdSub(tok) ==
    CASE tok = "/usr/bin/claude" -> {"claude"}
      [] tok = "/usr/bin/codex"  -> {"codex"}
      [] tok = "pnpm"            -> {"pnpm", "npm"}
      [] tok = "github"          -> {"git"}
      [] tok = "makefile"        -> {"make"}
      [] OTHER                   -> {tok}

\* strings.Contains(s, marker) for a marker of one word
ContainsWord(s, marker) == \E i \in 1..Len(s) : marker \in CmdSub(s[i])

\* strings.Contains(s, phrase) for a marker of several tokens
ContainsPhrase(s, phrase) ==
    \E i \in 1..(Len(s) - Len(phrase) + 1) : SubSeq(s, i, i + Len(phrase) - 1) = phrase

containsAny(s, words, phrases) ==
    \/ \E w \in words : ContainsWord(s, w)
    \/ \E ph \in phrases : ContainsPhrase(s, ph)

\* strings.Join(names, "\n")
RECURSIVE Join(_)
Join(names) ==
    IF names = << >> THEN Empty
    ELSE IF Len(names) = 1 THEN names[1]
    ELSE names[1] \o <<"\n">> \o Join(Tail(names))

BuildWords == {"make", "gcc", "g++", "cc1", "rustc", "javac", "tsc", "webpack", "vite", "esbuild", "rollup"}

BuildPhrases ==
    {<<"coordinator/cli.ts", " ", "build">>, <<" ", "next", " ", "build">>,
     <<"npm", " ", "run", " ", "build">>, <<"pnpm", " ", "run", " ", "build">>,
     <<"yarn", " ", "build">>, <<"go", " ", "build">>, <<"cargo", " ", "build">>}

\* Faulty variant of classifyChildren: the first signal alone is classified
classifyChildrenFirstOnly(names) ==
    LET joined == ToLower(names[1])
    IN  IF containsAny(joined, BuildWords, BuildPhrases) THEN "hammer"
        ELSE IF containsAny(joined, {"jest", "vitest", "pytest", "mocha", "phpunit", "rspec"}, {})
        THEN "testtube"
        ELSE IF containsAny(joined, {"npm", "yarn", "pnpm", "pip", "apt", "brew", "pacman"}, {})
        THEN "package"
        ELSE IF containsAny(joined, {"git"}, {}) THEN "shuffle"
        ELSE IF containsAny(joined, {"curl", "wget"}, {}) THEN "globe"
        ELSE "gear"

\* Faulty variant of classifyChildren: test markers are checked before build
\* markers
classifyChildrenTestFirst(names) ==
    LET joined == ToLower(Join(names))
    IN  IF containsAny(joined, {"jest", "vitest", "pytest", "mocha", "phpunit", "rspec"}, {})
        THEN "testtube"
        ELSE IF containsAny(joined, BuildWords, BuildPhrases) THEN "hammer"
        ELSE IF containsAny(joined, {"npm", "yarn", "pnpm", "pip", "apt", "brew", "pacman"}, {})
        THEN "package"
        ELSE IF containsAny(joined, {"git"}, {}) THEN "shuffle"
        ELSE IF containsAny(joined, {"curl", "wget"}, {}) THEN "globe"
        ELSE "gear"

classifyChildren(names) ==
    LET joined == ToLower(Join(names))
    IN  IF containsAny(joined, BuildWords, BuildPhrases) THEN "hammer"
        ELSE IF containsAny(joined, {"jest", "vitest", "pytest", "mocha", "phpunit", "rspec"}, {})
        THEN "testtube"
        ELSE IF containsAny(joined, {"npm", "yarn", "pnpm", "pip", "apt", "brew", "pacman"}, {})
        THEN "package"
        ELSE IF containsAny(joined, {"git"}, {}) THEN "shuffle"
        ELSE IF containsAny(joined, {"curl", "wget"}, {}) THEN "globe"
        ELSE "gear"

\* Faulty variant of isAgentLikeProcess: an agent marker in the command name
\* is enough
isAgentLikeProcessByName(comm, cmdline) ==
    IF comm = Empty /\ cmdline = Empty THEN TRUE
    ELSE IF ContainsWord(comm, "codex") \/ ContainsWord(comm, "claude") THEN TRUE
    ELSE IF comm = <<"node">> /\ cmdline = Empty THEN TRUE
    ELSE ContainsWord(cmdline, "codex") \/ ContainsWord(cmdline, "claude")

isAgentLikeProcess(comm, cmdline) ==
    IF comm = Empty /\ cmdline = Empty THEN TRUE
    ELSE IF /\ (ContainsWord(comm, "codex") \/ ContainsWord(comm, "claude") \/ comm = <<"node">>)
            /\ (cmdline = Empty \/ ContainsWord(cmdline, "codex") \/ ContainsWord(cmdline, "claude"))
    THEN TRUE
    ELSE ContainsWord(cmdline, "codex") \/ ContainsWord(cmdline, "claude")

\* the entry of pid in /proc, or a missing entry whose files cannot be read
NoEntry == [pid |-> 0, stat |-> [err |-> TRUE, data |-> Empty],
            cmdline |-> [err |-> TRUE, data |-> Empty],
            comm |-> [err |-> TRUE, data |-> Empty]]

Entry(proc, pid) ==
    IF \E i \in 1..Len(proc) : proc[i].pid = pid
    THEN proc[CHOOSE i \in 1..Len(proc) : proc[i].pid = pid]
    ELSE NoEntry

\* strings.ReplaceAll(data, "\x00", " ")
readCmdline(proc, pid) ==
    LET f == Entry(proc, pid).cmdline
    IN  IF f.err THEN Empty
        ELSE [i \in 1..Len(f.data) |-> IF f.data[i] = "NUL" THEN " " ELSE f.data[i]]

readComm(proc, pid) ==
    LET f == Entry(proc, pid).comm
    IN  IF f.err THEN Empty ELSE TrimSpace(f.data)

\* the largest process id the model writes in decimal
MaxPID == 60

Decimal == [n \in 0..MaxPID |-> ToString(n)]

\* strconv.Atoi succeeds on tok
IsNumber(tok) == \E n \in 0..MaxPID : Decimal[n] = tok

\* strconv.Atoi with the error dropped: 0 for a token that is no number
Atoi(tok) ==
    IF IsNumber(tok) THEN CHOOSE n \in 0..MaxPID : Decimal[n] = tok ELSE 0

\* strings.Fields: the tokens that are not white space
Fields(s) == SelectSeq(s, LAMBDA t : ~IsSpace(t))

\* The stat line is the tokens pid, " ", "(", comm..., ")", " ", state, " ", ppid, ...
parsePPIDFromStat(stat) ==
    LET closes == {i \in 1..Len(stat) : stat[i] = ")"}
        last   == IF closes = {} THEN 0
                  ELSE CHOOSE i \in closes : \A j \in closes : j <= i
    IN  IF last = 0 \/ last + 1 >= Len(stat) THEN 0
        ELSE LET fields == Fields(SubSeq(stat, last + 2, Len(stat)))
             IN  IF Len(fields) < 2 THEN 0 ELSE Atoi(fields[2])

readPPID(proc, pid) ==
    LET f == Entry(proc, pid).stat
    IN  IF f.err THEN 0 ELSE parsePPIDFromStat(f.data)

\* Faulty variant of childMapFrom: a parent id of zero makes an edge too
RECURSIVE childMapFromZero(_, _, _)
childMapFromZero(proc, i, m) ==
    IF i > Len(proc) THEN m
    ELSE LET pid  == proc[i].pid
             ppid == readPPID(proc, pid)
         IN  IF ppid >= 0
             THEN childMapFromZero(proc, i + 1, Put(m, ppid, Append(Get(m, ppid, << >>), pid)))
             ELSE childMapFromZero(proc, i + 1, m)

\* m[ppid] = append(m[ppid], pid) over the entries from index i on
RECURSIVE childMapFrom(_, _, _)
childMapFrom(proc, i, m) ==
    IF i > Len(proc) THEN m
    ELSE LET pid  == proc[i].pid
             ppid == readPPID(proc, pid)
         IN  IF ppid > 0
             THEN childMapFrom(proc, i + 1, Put(m, ppid, Append(Get(m, ppid, << >>), pid)))
             ELSE childMapFrom(proc, i + 1, m)

buildChildMap(proc) == childMapFrom(proc, 1, EmptyMap)

AgentOf(proc, pid) ==
    LET lower == ToLower(readCmdline(proc, pid))
    IN  IF ContainsWord(lower, "claude") THEN "claude"
        ELSE IF ContainsWord(lower, "codex") THEN "codex"
        ELSE ""

RECURSIVE findAmong(_, _, _)
findAmong(proc, pids, i) ==
    IF i > Len(pids) THEN [pid |-> 0, name |-> ""]
    ELSE IF AgentOf(proc, pids[i]) # ""
    THEN [pid |-> pids[i], name |-> AgentOf(proc, pids[i])]
    ELSE findAmong(proc, pids, i + 1)

\* the children of the processes pids, in order
RECURSIVE childrenOfAll(_, _, _)
childrenOfAll(childMap, pids, i) ==
    IF i > Len(pids) THEN << >>
    ELSE Get(childMap, pids[i], << >>) \o childrenOfAll(childMap, pids, i + 1)

\* Faulty variant of findAgentFrom: every child before any grandchild
findAgentBreadthFirst(proc, childMap, children, i) ==
    IF findAmong(proc, children, i).pid # 0 THEN findAmong(proc, children, i)
    ELSE findAmong(proc, childrenOfAll(childMap, children, i), 1)

\* each child in turn: the child itself, then its children
RECURSIVE findAgentFrom(_, _, _, _)
findAgentFrom(proc, childMap, children, i) ==
    IF i > Len(children) THEN [pid |-> 0, name |-> ""]
    ELSE LET child == children[i]
             gc    == findAmong(proc, Get(childMap, child, << >>), 1)
         IN  IF AgentOf(proc, child) # ""
             THEN [pid |-> child, name |-> AgentOf(proc, child)]
             ELSE IF gc.pid # 0 THEN gc
             ELSE findAgentFrom(proc, childMap, children, i + 1)

\* Faulty variant of findAgent: the great-grandchildren are searched as well
findAgentDeeper(proc, panePID, childMap) ==
    IF findAgentFrom(proc, childMap, Get(childMap, panePID, << >>), 1).pid # 0
    THEN findAgentFrom(proc, childMap, Get(childMap, panePID, << >>), 1)
    ELSE findAmong(proc, childrenOfAll(childMap,
                             childrenOfAll(childMap,
                                 childrenOfAll(childMap, <<panePID>>, 1), 1), 1), 1)

findAgent(proc, panePID, childMap) ==
    findAgentFrom(proc, childMap, Get(childMap, panePID, << >>), 1)

\* the queue loop; fuel bounds the loop on a cyclic map
RECURSIVE drainQueue(_, _, _, _)
drainQueue(childMap, queue, result, fuel) ==
    IF queue = << >> \/ fuel = 0 THEN result
    ELSE drainQueue(childMap, Tail(queue) \o Get(childMap, Head(queue), << >>),
                    Append(result, Head(queue)), fuel - 1)

MaxDescendants == 16

collectDescendants(pid, childMap) ==
    drainQueue(childMap, Get(childMap, pid, << >>), << >>, MaxDescendants)

\* the signals of the descendants from index i on
RECURSIVE childSignalsFrom(_, _, _)
childSignalsFrom(proc, descendants, i) ==
    IF i > Len(descendants) THEN << >>
    ELSE LET comm    == ToLower(readComm(proc, descendants[i]))
             cmdline == ToLower(readCmdline(proc, descendants[i]))
             signal  == IF cmdline = Empty THEN comm ELSE cmdline
             rest    == childSignalsFrom(proc, descendants, i + 1)
         IN  IF isAgentLikeProcess(comm, cmdline) \/ signal = Empty
             THEN rest
             ELSE <<signal>> \o rest

---------------------------------------------------------------------------
(* One cycle.  The operators below thread a record W through the calls of  *)
(* the cycle: the per-window maps, the capture cache of the cycle, the     *)
(* number of tmux captures made (ncap) and the tmux renames issued (calls). *)
(* capIn[window] is what tmux capture-pane returns for the window in this  *)
(* cycle: [ok, content].                                                   *)

\* a local variable: Body applied to the value v
Bind(v, Body(_)) == Body(v)

\* Faulty variant of getPaneContent: a failed capture is not cached
getPaneContentRetry(W, window, capIn) ==
    IF window \in DOMAIN W.cache
    THEN [W |-> W, content |-> W.cache[window].content, ok |-> W.cache[window].ok]
    ELSE Bind([W EXCEPT !.ncap = Put(W.ncap, window, Get(W.ncap, window, 0) + 1)], LAMBDA W1 :
         IF ~capIn[window].ok
         THEN [W |-> W1, content |-> << >>, ok |-> FALSE]
         ELSE [W |-> [W1 EXCEPT !.cache = Put(W1.cache, window,
                                              [content |-> capIn[window].content, ok |-> TRUE])],
               content |-> capIn[window].content, ok |-> TRUE])

getPaneContent(W, window, capIn) ==
    IF window \in DOMAIN W.cache
    THEN [W |-> W, content |-> W.cache[window].content, ok |-> W.cache[window].ok]
    ELSE Bind([W EXCEPT !.ncap = Put(W.ncap, window, Get(W.ncap, window, 0) + 1)], LAMBDA W1 :
         IF ~capIn[window].ok
         THEN [W |-> [W1 EXCEPT !.cache = Put(W1.cache, window, [content |-> << >>, ok |-> FALSE])],
               content |-> << >>, ok |-> FALSE]
         ELSE [W |-> [W1 EXCEPT !.cache = Put(W1.cache, window,
                                              [content |-> capIn[window].content, ok |-> TRUE])],
               content |-> capIn[window].content, ok |-> TRUE])

clearActiveMarker(W, window) ==
    [W EXCEPT !.activeSig = Delete(W.activeSig, window),
              !.activeAt  = Delete(W.activeAt, window)]

\* windowActiveSig[window] = activeSig; windowActiveAt[window] = now
trackActiveMarker(W, window, activeSig, t) ==
    [W EXCEPT !.activeSig = Put(W.activeSig, window, activeSig),
              !.activeAt  = Put(W.activeAt, window, t)]

\* Faulty variant of isStaleActiveMarker: stale only after the threshold
isStaleActiveMarkerLate(W, window, content, t) ==
    Bind(classifyPaneActiveSignature(content), LAMBDA activeSig :
        IF activeSig = Empty THEN [W |-> W, val |-> FALSE]
        ELSE IF detectPromptSignature(content) = Empty
        THEN [W |-> trackActiveMarker(W, window, activeSig, t), val |-> FALSE]
        ELSE IF window \notin DOMAIN W.activeSig \/ W.activeSig[window] # activeSig
        THEN [W |-> trackActiveMarker(W, window, activeSig, t), val |-> FALSE]
        ELSE IF window \notin DOMAIN W.activeAt
        THEN [W |-> [W EXCEPT !.activeAt = Put(W.activeAt, window, t)], val |-> FALSE]
        ELSE [W |-> W, val |-> t - W.activeAt[window] > staleActiveThreshold])

isStaleActiveMarker(W, window, content, t) ==
    Bind(classifyPaneActiveSignature(content), LAMBDA activeSig :
        IF activeSig = Empty THEN [W |-> W, val |-> FALSE]
        ELSE IF detectPromptSignature(content) = Empty
        THEN [W |-> trackActiveMarker(W, window, activeSig, t), val |-> FALSE]
        ELSE IF window \notin DOMAIN W.activeSig \/ W.activeSig[window] # activeSig
        THEN [W |-> trackActiveMarker(W, window, activeSig, t), val |-> FALSE]
        ELSE IF window \notin DOMAIN W.activeAt
        THEN [W |-> [W EXCEPT !.activeAt = Put(W.activeAt, window, t)], val |-> FALSE]
        ELSE [W |-> W, val |-> t - W.activeAt[window] >= staleActiveThreshold])

\* Faulty variant of graceActive: no grace period
graceActiveNone(W, window, active, t) ==
    IF active
    THEN [W |-> [W EXCEPT !.lastActive = Put(W.lastActive, window, t)], val |-> TRUE]
    ELSE [W |-> [W EXCEPT !.lastActive = Delete(W.lastActive, window)], val |-> FALSE]

\* Faulty variant of graceActive: the grace period includes its last instant
graceActiveInclusive(W, window, active, t) ==
    IF active
    THEN [W |-> [W EXCEPT !.lastActive = Put(W.lastActive, window, t)], val |-> TRUE]
    ELSE IF window \in DOMAIN W.lastActive
    THEN IF t - W.lastActive[window] <= activeGrace
         THEN [W |-> W, val |-> TRUE]
         ELSE [W |-> [W EXCEPT !.lastActive = Delete(W.lastActive, window)], val |-> FALSE]
    ELSE [W |-> W, val |-> FALSE]

\* the grace period: the part of isPaneActive under lastActiveMu
graceActive(W, window, active, t) ==
    IF active
    THEN [W |-> [W EXCEPT !.lastActive = Put(W.lastActive, window, t)], val |-> TRUE]
    ELSE IF window \in DOMAIN W.lastActive
    THEN IF t - W.lastActive[window] < activeGrace
         THEN [W |-> W, val |-> TRUE]
         ELSE [W |-> [W EXCEPT !.lastActive = Delete(W.lastActive, window)], val |-> FALSE]
    ELSE [W |-> W, val |-> FALSE]

\* the return of isPaneActive.  W.probe[window] records what the call found
\* (raw classification, staleness, result), for the properties; the source
\* keeps no such record
Answer(W, window, raw, stale, graced) ==
    [W   |-> [graced.W EXCEPT !.probe = Put(W.probe, window,
                                             [raw |-> raw, stale |-> stale,
                                              val |-> graced.val])],
     val |-> graced.val]

isPaneActive(W, window, capIn, t) ==
    Bind(getPaneContent(W, window, capIn), LAMBDA got :
        IF got.ok /\ classifyPaneContent(got.content)
        THEN Bind(isStaleActiveMarker(got.W, window, got.content, t), LAMBDA stale :
                 Answer(W, window, TRUE, stale.val,
                        graceActive(stale.W, window, ~stale.val, t)))
        ELSE Answer(W, window, FALSE, FALSE,
                    graceActive(clearActiveMarker(got.W, window), window, FALSE, t)))

paneNeedsAttention(W, window, capIn) ==
    Bind(getPaneContent(W, window, capIn), LAMBDA got :
        [W |-> got.W, val |-> got.ok /\ classifyPaneNeedsAttention(got.content)])

paneSignals(W, window, capIn) ==
    Bind(getPaneContent(W, window, capIn), LAMBDA got :
        IF ~got.ok
        THEN [W |-> got.W, promptSig |-> Empty, doneSig |-> Empty]
        ELSE [W |-> got.W,
              promptSig |-> classifyPaneAttentionSignature(got.content),
              doneSig   |-> classifyPaneCompletionSignature(got.content)])

\* Faulty variant of rememberWindowTopic: a capture without a topic forgets
\* the remembered one
rememberWindowTopicForgetting(W, window, capIn) ==
    Bind(getPaneContent(W, window, capIn), LAMBDA got :
        Bind(IF got.ok THEN classifyPaneTopic(got.content) ELSE Empty, LAMBDA topic :
            [W |-> [got.W EXCEPT !.topic = Put(got.W.topic, window, topic)],
             val |-> topic]))

rememberWindowTopic(W, window, capIn) ==
    Bind(getPaneContent(W, window, capIn), LAMBDA got :
        IF ~got.ok THEN [W |-> got.W, val |-> Get(got.W.topic, window, Empty)]
        ELSE Bind(classifyPaneTopic(got.content), LAMBDA topic :
                 IF topic # Empty
                 THEN [W |-> [got.W EXCEPT !.topic = Put(got.W.topic, window, topic)],
                       val |-> topic]
                 ELSE [W |-> got.W, val |-> Get(got.W.topic, window, Empty)]))

\* Faulty variant of unknownChildStatus: an active pane wins over a prompt
unknownChildStatusActiveFirst(prefix, paneActive, needsAttention) ==
    IF paneActive THEN <<prefix, "brain">>
    ELSE IF needsAttention THEN <<prefix, "zzz">>
    ELSE <<prefix, "gear">>

unknownChildStatus(prefix, paneActive, needsAttention) ==
    IF needsAttention THEN <<prefix, "zzz">>
    ELSE IF paneActive THEN <<prefix, "brain">>
    ELSE <<prefix, "gear">>

\* the descendants of the agent that are not the agent's own: their signals
childSignalsOf(proc, agentPID, childMap) ==
    childSignalsFrom(proc, collectDescendants(agentPID, childMap), 1)

\* getStatus once the agent is found
agentStatus(W, window, prefix, childSignals, capIn, t) ==
    IF Len(childSignals) > 0
    THEN Bind(classifyChildren(childSignals), LAMBDA childStatus :
             IF childStatus = "gear"
             THEN Bind(isPaneActive(W, window, capIn, t), LAMBDA active :
                  Bind(paneNeedsAttention(active.W, window, capIn), LAMBDA attention :
                      [W   |-> attention.W,
                       val |-> unknownChildStatus(prefix, active.val, attention.val)]))
             ELSE [W |-> W, val |-> <<prefix, childStatus>>])
    ELSE Bind(paneNeedsAttention(W, window, capIn), LAMBDA attention :
             IF attention.val THEN [W |-> attention.W, val |-> <<prefix, "zzz">>]
             ELSE Bind(isPaneActive(attention.W, window, capIn, t), LAMBDA active :
                      [W   |-> active.W,
                       val |-> <<prefix, IF active.val THEN "brain" ELSE "zzz">>]))

getStatus(W, window, panePID, proc, childMap, capIn, t) ==
    Bind(findAgent(proc, panePID, childMap), LAMBDA agent :
        IF agent.pid = 0 THEN [W |-> W, val |-> Empty]
        ELSE agentStatus(W, window, IF agent.name = "codex" THEN "x " ELSE "c ",
                         childSignalsOf(proc, agent.pid, childMap), capIn, t))

\* listPanes: out is what tmux list-panes returns, [err, lines]; a line is
\* the tokens window, " ", pid, " ", window_active
RECURSIVE parsePanes(_, _)
parsePanes(lines, i) ==
    IF i > Len(lines) THEN << >>
    ELSE LET fields == Fields(lines[i])
         IN  IF Len(fields) < 3 \/ ~IsNumber(fields[2])
             THEN parsePanes(lines, i + 1)
             ELSE <<[window  |-> fields[1],
                     pid     |-> Atoi(fields[2]),
                     focused |-> fields[3] = "1"]>> \o parsePanes(lines, i + 1)

listPanes(out) == IF out.err THEN << >> ELSE parsePanes(out.lines, 1)

\* Faulty variant of summarize: a pane of equal priority replaces the status
summarizeLatest(summaries, p, rawStatus) ==
    IF p.window \notin DOMAIN summaries
    THEN Put(summaries, p.window, [status |-> rawStatus, focused |-> p.focused])
    ELSE Put(summaries, p.window,
             [status  |-> IF statusPriority(rawStatus) >= statusPriority(summaries[p.window].status)
                          THEN rawStatus ELSE summaries[p.window].status,
              focused |-> summaries[p.window].focused \/ p.focused])

\* the summary of a window after one more pane of it, with status rawStatus
summarize(summaries, p, rawStatus) ==
    IF p.window \notin DOMAIN summaries
    THEN Put(summaries, p.window, [status |-> rawStatus, focused |-> p.focused])
    ELSE Put(summaries, p.window,
             [status  |-> IF statusPriority(rawStatus) > statusPriority(summaries[p.window].status)
                          THEN rawStatus ELSE summaries[p.window].status,
              focused |-> summaries[p.window].focused \/ p.focused])

\* the first loop of updateAllPanes, from pane i on
RECURSIVE statusLoop(_, _, _, _, _, _, _)
statusLoop(W, panes, i, proc, childMap, capIn, t) ==
    IF i > Len(panes) THEN W
    ELSE Bind(getStatus(W, panes[i].window, panes[i].pid, proc, childMap, capIn, t), LAMBDA got :
             statusLoop([got.W EXCEPT !.summaries = summarize(got.W.summaries, panes[i], got.val)],
                        panes, i + 1, proc, childMap, capIn, t))

\* Faulty variant of unreadStep: the flag is cleared in every cycle that
\* does not mark the window
unreadStepUnlessMarked(ss, window, mark, focused, isWorking) ==
    IF mark /\ ~focused /\ ~isWorking THEN markUnread(ss, window)
    ELSE clearUnread(ss, window)

\* markUnread / clearUnread as the cycle applies them
unreadStep(ss, window, mark, focused, isWorking) ==
    Bind(IF mark THEN markUnread(ss, window) ELSE ss, LAMBDA ss1 :
    Bind(IF focused THEN clearUnread(ss1, window) ELSE ss1, LAMBDA ss2 :
        IF isWorking THEN clearUnread(ss2, window) ELSE ss2))

\* Faulty variant of effectiveStatus: the unread flag is not looked at
effectiveStatusAlways(ss, window, rawStatus) ==
    IF ~isWorkingStatus(rawStatus) /\ rawStatus # Empty /\ HasSuffix(rawStatus, "zzz")
    THEN TrimSuffix(rawStatus, "zzz") \o <<"mailbox">>
    ELSE rawStatus

\* the status shown: the idle glyph replaced by the unread glyph
effectiveStatus(ss, window, rawStatus) ==
    IF ~isWorkingStatus(rawStatus) /\ rawStatus # Empty /\ isUnread(ss, window)
       /\ HasSuffix(rawStatus, "zzz")
    THEN TrimSuffix(rawStatus, "zzz") \o <<"mailbox">>
    ELSE rawStatus

\* the end of the loop body: the topic, then setWindowStatus
commitWindow(W, window, status, capIn) ==
    Bind(IF status # Empty THEN rememberWindowTopic(W, window, capIn)
         ELSE [W |-> W, val |-> Empty], LAMBDA topic :
    Bind(formatStatusWithTopic(status, topic.val), LAMBDA effective :
    Bind(setWindowStatus(topic.W.ss, window, effective), LAMBDA set :
        [topic.W EXCEPT !.ss     = set.ss,
                        !.calls  = topic.W.calls \o set.calls,
                        !.handed = Put(topic.W.handed, window, effective)])))

\* the body of the second loop of updateAllPanes for one window
applyWindow(W, window, rawStatus, focused, capIn) ==
    Bind(IF ~isWorkingStatus(rawStatus) /\ rawStatus # Empty
         THEN paneSignals(W, window, capIn)
         ELSE [W |-> W, promptSig |-> Empty, doneSig |-> Empty], LAMBDA sig :
    Bind(shouldMarkUnread(Get(W.wasWorking, window, FALSE), focused,
                          isWorkingStatus(rawStatus), rawStatus,
                          Get(W.seen, window, FALSE),
                          sig.promptSig, Get(W.promptSig, window, Empty),
                          sig.doneSig, Get(W.doneSig, window, Empty)), LAMBDA mark :
    Bind([sig.W EXCEPT
            !.ss         = unreadStep(sig.W.ss, window, mark, focused, isWorkingStatus(rawStatus)),
            !.wasWorking = Put(sig.W.wasWorking, window, isWorkingStatus(rawStatus)),
            !.seen       = Put(sig.W.seen, window, TRUE),
            !.promptSig  = Put(sig.W.promptSig, window, sig.promptSig),
            !.doneSig    = Put(sig.W.doneSig, window, sig.doneSig),
            !.marked     = Put(sig.W.marked, window, mark)], LAMBDA W1 :
        commitWindow(W1, window, effectiveStatus(W1.ss, window, rawStatus), capIn))))

\* the second loop, over the windows in the order the map iteration yields
RECURSIVE applyLoop(_, _, _, _)
applyLoop(W, order, i, capIn) ==
    IF i > Len(order) THEN W
    ELSE applyLoop(applyWindow(W, order[i], W.summaries[order[i]].status,
                               W.summaries[order[i]].focused, capIn),
                   order, i + 1, capIn)

\* Faulty variant of cleanup: the status records are not pruned
cleanupExceptStatus(W, seenWindows) ==
    [W EXCEPT !.lastActive = Prune(W.lastActive, seenWindows),
              !.wasWorking = Prune(W.wasWorking, seenWindows),
              !.seen       = Prune(W.seen, seenWindows),
              !.promptSig  = Prune(W.promptSig, seenWindows),
              !.doneSig    = Prune(W.doneSig, seenWindows),
              !.activeSig  = Prune(W.activeSig, seenWindows),
              !.activeAt   = Prune(W.activeAt, seenWindows),
              !.topic      = Prune(W.topic, seenWindows)]

\* the cleanup loops
cleanup(W, seenWindows) ==
    [W EXCEPT !.lastActive = Prune(W.lastActive, seenWindows),
              !.ss         = Prune(W.ss, seenWindows),
              !.wasWorking = Prune(W.wasWorking, seenWindows),
              !.seen       = Prune(W.seen, seenWindows),
              !.promptSig  = Prune(W.promptSig, seenWindows),
              !.doneSig    = Prune(W.doneSig, seenWindows),
              !.activeSig  = Prune(W.activeSig, seenWindows),
              !.activeAt   = Prune(W.activeAt, seenWindows),
              !.topic      = Prune(W.topic, seenWindows)]

\* Faulty variant of runCycle: the cleanup loops run without panes too
runCyclePruning(W, panes, proc, capIn, order, t) ==
    IF Len(panes) = 0 THEN cleanup(W, {})
    ELSE cleanup(applyLoop(statusLoop(W, panes, 1, proc, buildChildMap(proc), capIn, t),
                           order, 1, capIn),
                 {panes[i].window : i \in 1..Len(panes)})

\* the cycle once the panes are listed
runCycle(W, panes, proc, capIn, order, t) ==
    IF Len(panes) = 0 THEN W
    ELSE cleanup(applyLoop(statusLoop(W, panes, 1, proc, buildChildMap(proc), capIn, t),
                           order, 1, capIn),
                 {panes[i].window : i \in 1..Len(panes)})

\* updateAllPanes on the maps W, with the answers of tmux and /proc of this cycle
updateAllPanes(W, listing, proc, capIn, order, t) ==
    runCycle(W, listPanes(listing), proc, capIn, order, t)

---------------------------------------------------------------------------
(* The answers of tmux and /proc the model draws from *)

Windows == {"w1", "w2"}

\* what tmux capture-pane prints
ScreenBare == << <<">", " ">> >>

ScreenAsk == << <<">>", " ", "fix", " ", "login">>, << >> >>

ScreenDone ==
    << <<"Done.">>, << >>, <<">", " ", "Explain", " ", "this", " ", "codebase">>, << >> >>

ScreenBusy ==
    << <<"mdot", " ", "Thinking...", " ", "(esc to interrupt)">>, <<">>", " ">>, << >> >>

ScreenSpin == << <<"star", " ", "Brewing...", " ", "menu">> >>

ScreenBlank == << << >> >>

CaptureFail == [ok |-> FALSE, content |-> << >>]

Captured(screen) == [ok |-> TRUE, content |-> screen]

\* one /proc entry
Readable(data) == [err |-> FALSE, data |-> data]

Process(pid, ppid, comm, cmdline) ==
    [pid     |-> pid,
     stat    |-> Readable(<<ToString(pid), " ", "(", comm, ")", " ", "S", " ",
                            ToString(ppid), " ", "0">>),
     cmdline |-> Readable(cmdline),
     comm    |-> Readable(<<comm, "\n">>)]

\* what runs under a pane's shell
Variants == {"none", "claude", "codexBuild", "wrapped", "deep"}

Tree(shell, variant) ==
    CASE variant = "claude" ->
            <<Process(shell + 1, shell, "claude", <<"claude", "NUL">>)>>
      [] variant = "codexBuild" ->
            <<Process(shell + 1, shell, "node", <<"node", "NUL", "/usr/bin/codex", "NUL">>),
              Process(shell + 2, shell + 1, "make", <<"make", "NUL", "all", "NUL">>),
              Process(shell + 3, shell + 2, "cc1", <<"cc1", "NUL">>)>>
      [] variant = "wrapped" ->
            <<Process(shell + 1, shell, "bash", <<"bash", "NUL">>),
              Process(shell + 2, shell + 1, "Claude", <<"Claude", "NUL">>),
              Process(shell + 3, shell + 2, "sleep", <<"sleep", "NUL", "5", "NUL">>)>>
      [] variant = "deep" ->
            <<Process(shell + 1, shell, "bash", <<"bash", "NUL">>),
              Process(shell + 2, shell + 1, "bash", <<"bash", "NUL">>),
              Process(shell + 3, shell + 2, "claude", <<"claude", "NUL">>)>>
      [] OTHER -> << >>

\* the shell of the i-th pane the model lists
Shell(i) == 10 * i

\* the line of tmux list-panes for the i-th pane
PaneLine(window, i, view) ==
    <<window, " ", ToString(Shell(i)), " ", IF view.focused THEN "1" ELSE "0">>

RECURSIVE ProcOf(_, _)
ProcOf(views, i) ==
    IF i > Len(views) THEN << >>
    ELSE <<Process(Shell(i), 1, "bash", <<"-bash", "NUL">>)>>
         \o Tree(Shell(i), views[i].variant) \o ProcOf(views, i + 1)

\* views: a sequence of [window, variant, focused], one per pane
ListingOf(views) ==
    [err |-> FALSE, lines |-> [i \in 1..Len(views) |-> PaneLine(views[i].window, i, views[i])]]

ProcTableOf(views) == <<Process(1, 0, "init", <<"init", "NUL">>)>> \o ProcOf(views, 1)

Orders(ws) == {o \in [1..Cardinality(ws) -> ws] : \A w \in ws : \E i \in DOMAIN o : o[i] = w}

---------------------------------------------------------------------------
(* The daemon *)

MaxCycles == 3

NoCycle ==
    [ran |-> FALSE, listed |-> {}, raw |-> EmptyMap, focused |-> EmptyMap,
     handed |-> EmptyMap, marked |-> EmptyMap, unreadBefore |-> EmptyMap,
     prevWorking |-> EmptyMap, prevHanded |-> EmptyMap, calls |-> << >>,
     ncap |-> EmptyMap, t |-> 0, cache |-> EmptyMap, probe |-> EmptyMap,
     graceFrom |-> EmptyMap, trackedSig |-> EmptyMap, trackedAt |-> EmptyMap,
     appliedBefore |-> EmptyMap, topicBefore |-> EmptyMap]

NoCall == [op |-> "none", window |-> "", trail |-> << >>, calls |-> << >>,
           before |-> ZeroState]

NoArgs == [f |-> "none"]

Init ==
    /\ statusState = EmptyMap
    /\ lastActive = EmptyMap
    /\ windowWasWorking = EmptyMap
    /\ windowSeen = EmptyMap
    /\ windowPromptSig = EmptyMap
    /\ windowDoneSig = EmptyMap
    /\ windowActiveSig = EmptyMap
    /\ windowActiveAt = EmptyMap
    /\ windowTopic = EmptyMap
    /\ now = 0
    /\ threshold = stabilityThreshold
    /\ hc = NoCall
    /\ cyc = NoCycle
    /\ fin = NoArgs
    /\ fout = Empty

\* the maps at the start of a cycle
Maps ==
    [ss |-> statusState, lastActive |-> lastActive, wasWorking |-> windowWasWorking,
     seen |-> windowSeen, promptSig |-> windowPromptSig, doneSig |-> windowDoneSig,
     activeSig |-> windowActiveSig, activeAt |-> windowActiveAt, topic |-> windowTopic,
     cache |-> EmptyMap, ncap |-> EmptyMap, calls |-> << >>, summaries |-> EmptyMap,
     marked |-> EmptyMap, handed |-> EmptyMap, probe |-> EmptyMap]

\* what the cycle that led from Maps to W did, for the properties below
Observed(W, listed) ==
    [ran          |-> listed # {},
     listed       |-> listed,
     raw          |-> [w \in listed |-> W.summaries[w].status],
     focused      |-> [w \in listed |-> W.summaries[w].focused],
     handed       |-> [w \in listed |-> W.handed[w]],
     marked       |-> [w \in listed |-> W.marked[w]],
     unreadBefore |-> [w \in listed |-> isUnread(statusState, w)],
     prevWorking  |-> [w \in listed |-> w \in cyc.listed /\ isWorkingStatus(cyc.raw[w])],
     prevHanded   |-> [w \in listed |-> IF w \in cyc.listed THEN <<cyc.handed[w]>> ELSE << >>],
     calls        |-> W.calls,
     ncap         |-> W.ncap,
     t            |-> now,
     cache        |-> W.cache,
     probe        |-> W.probe,
     graceFrom    |-> lastActive,
     trackedSig   |-> windowActiveSig,
     trackedAt    |-> windowActiveAt,
     appliedBefore |-> [w \in listed |-> Get(statusState, w, ZeroState).applied],
     topicBefore  |-> [w \in listed |-> Get(windowTopic, w, Empty)]]

\* updateAllPanes, then the sleep and whatever else passes before the next
\* iteration reads the clock
Advance(listing, proc, capIn, order, dt) ==
    /\ \E W \in {updateAllPanes(Maps, listing, proc, capIn, order, now)} :
           /\ statusState' = W.ss
           /\ lastActive' = W.lastActive
           /\ windowWasWorking' = W.wasWorking
           /\ windowSeen' = W.seen
           /\ windowPromptSig' = W.promptSig
           /\ windowDoneSig' = W.doneSig
           /\ windowActiveSig' = W.activeSig
           /\ windowActiveAt' = W.activeAt
           /\ windowTopic' = W.topic
           /\ cyc' = Observed(W, DOMAIN W.summaries)
    /\ now' = now + dt

\* one iteration of main's loop
Iteration(listing, proc, capIn, order, dt) ==
    /\ Advance(listing, proc, capIn, order, dt)
    /\ UNCHANGED <<threshold, hc, fin, fout>>

Cycle(listing, proc, capIn, order, dt) ==
    /\ now < MaxCycles * PollInterval
    /\ Iteration(listing, proc, capIn, order, dt)

\* The scenes the daemon is shown: the panes tmux lists, what runs under
\* each, and what each window's capture prints.  A view is one pane.
View(window, variant, focused) ==
    [window |-> window, variant |-> variant, focused |-> focused]

Screens == {CaptureFail, Captured(ScreenBare), Captured(ScreenAsk),
            Captured(ScreenDone), Captured(ScreenSpin)}

\* window w1 alone: every variant, focus and screen that matters to it
FirstWindow ==
    {[views |-> <<View("w1", "none", f)>>, capIn |-> [w \in {"w1"} |-> CaptureFail]] :
        f \in BOOLEAN}
    \cup {[views |-> <<View("w1", "codexBuild", f)>>, capIn |-> [w \in {"w1"} |-> s]] :
            f \in BOOLEAN, s \in {CaptureFail, Captured(ScreenAsk)}}
    \cup {[views |-> <<View("w1", "claude", f)>>, capIn |-> [w \in {"w1"} |-> s]] :
            f \in BOOLEAN, s \in Screens}

\* window w2, never focused
SecondWindow ==
    {[views |-> <<View("w2", "claude", FALSE)>>, capIn |-> [w \in {"w2"} |-> Captured(ScreenAsk)]],
     [views |-> <<View("w2", "wrapped", FALSE)>>, capIn |-> [w \in {"w2"} |-> CaptureFail]]}

\* two panes in window w1
SplitWindow ==
    {[views |-> <<View("w1", "claude", FALSE), View("w1", v, TRUE)>>,
      capIn |-> [w \in {"w1"} |-> Captured(ScreenBare)]] : v \in {"none", "codexBuild"}}

Both(a, b) ==
    [views |-> a.views \o b.views,
     capIn |-> [w \in DOMAIN a.capIn \cup DOMAIN b.capIn |->
                   IF w \in DOMAIN a.capIn THEN a.capIn[w] ELSE b.capIn[w]]]

\* window w1 as it is shown next to window w2
BesideSecond ==
    {[views |-> <<View("w1", "claude", FALSE)>>, capIn |-> [w \in {"w1"} |-> Captured(ScreenAsk)]],
     [views |-> <<View("w1", "claude", TRUE)>>, capIn |-> [w \in {"w1"} |-> Captured(ScreenBare)]],
     [views |-> <<View("w1", "claude", FALSE)>>, capIn |-> [w \in {"w1"} |-> Captured(ScreenSpin)]],
     [views |-> <<View("w1", "codexBuild", FALSE)>>, capIn |-> [w \in {"w1"} |-> CaptureFail]]}

Scenes ==
    FirstWindow \cup SecondWindow \cup SplitWindow
    \cup {Both(a, b) : a \in BesideSecond, b \in SecondWindow}

WindowsOf(views) == {views[i].window : i \in 1..Len(views)}

\* tmux list-panes fails, prints nothing, or prints a line that is no pane
ListingFails ==
    \E listing \in {[err |-> TRUE, lines |-> << >>], [err |-> FALSE, lines |-> << >>],
                    [err |-> FALSE, lines |-> << <<"w1", " ", "10">> >>]} :
        Cycle(listing, ProcTableOf(<< >>), EmptyMap, << >>, PollInterval)

PanesListed ==
    \E scene \in Scenes :
        \E order \in Orders(WindowsOf(scene.views)) :
            Cycle(ListingOf(scene.views), ProcTableOf(scene.views), scene.capIn, order,
                  PollInterval)

Next == ListingFails \/ PanesListed

Spec == Init /\ [][Next]_vars

---------------------------------------------------------------------------
(* The hysteresis of one window status record, for any threshold.         *)
(* setWindowStatus, markUnread, clearUnread and the deletion of the       *)
(* cleanup loop are called directly, in any order, on statusState.        *)

MaxThreshold == 3

MaxSetCalls == 4

WorkingStatus == <<"c ", "brain">>

IdleStatus == <<"c ", "zzz">>

HystStatuses == {Empty, IdleStatus, WorkingStatus}

NoTrail == [w \in Windows |-> << >>]

InitHyst ==
    /\ statusState = EmptyMap
    /\ lastActive = EmptyMap
    /\ windowWasWorking = EmptyMap
    /\ windowSeen = EmptyMap
    /\ windowPromptSig = EmptyMap
    /\ windowDoneSig = EmptyMap
    /\ windowActiveSig = EmptyMap
    /\ windowActiveAt = EmptyMap
    /\ windowTopic = EmptyMap
    /\ now = 0
    /\ threshold \in 1..MaxThreshold
    /\ hc = [NoCall EXCEPT !.trail = NoTrail]
    /\ cyc = NoCycle
    /\ fin = NoArgs
    /\ fout = Empty

\* the number of setWindowStatus calls so far
RECURSIVE SetCalls(_)
SetCalls(ws) ==
    IF ws = {} THEN 0
    ELSE LET w == CHOOSE x \in ws : TRUE
         IN  Len(hc.trail[w]) + SetCalls(ws \ {w})

\* what the last operation on statusState was: the window, the record it
\* found, the calls to tmux it made, and every status handed so far
Called(op, window, trail, calls) ==
    [op |-> op, window |-> window, trail |-> trail, calls |-> calls,
     before |-> Get(statusState, window, ZeroState)]

NotCycle ==
    UNCHANGED <<lastActive, windowWasWorking, windowSeen, windowPromptSig, windowDoneSig,
                windowActiveSig, windowActiveAt, windowTopic, now, threshold, cyc, fin, fout>>

SetStatus(window, status) ==
    /\ SetCalls(Windows) < MaxSetCalls
    /\ \E set \in {setWindowStatus(statusState, window, status)} :
           /\ statusState' = set.ss
           /\ hc' = Called("set", window,
                           [hc.trail EXCEPT ![window] = Append(@, status)], set.calls)
    /\ NotCycle

MarkUnread(window) ==
    /\ statusState' = markUnread(statusState, window)
    /\ hc' = Called("mark", window, hc.trail, << >>)
    /\ NotCycle

ClearUnread(window) ==
    /\ statusState' = clearUnread(statusState, window)
    /\ hc' = Called("clear", window, hc.trail, << >>)
    /\ NotCycle

\* the cleanup loop of updateAllPanes on a window that is no longer listed
ForgetWindow(window) ==
    /\ window \in DOMAIN statusState
    /\ statusState' = Delete(statusState, window)
    /\ hc' = Called("forget", window, hc.trail, << >>)
    /\ NotCycle

NextHyst ==
    \E window \in Windows :
        \/ \E status \in HystStatuses : SetStatus(window, status)
        \/ MarkUnread(window)
        \/ ClearUnread(window)
        \/ ForgetWindow(window)

SpecHyst == InitHyst /\ [][NextHyst]_vars

\* the last call of setWindowStatus: its status, the record after it, and
\* how many consecutive calls for the window, this one included, had that status
LastStatus == hc.trail[hc.window][Len(hc.trail[hc.window])]

StateAfter == Get(statusState, hc.window, ZeroState)

RECURSIVE RunAt(_, _)
RunAt(trail, i) ==
    IF i > 1 /\ trail[i - 1] = trail[i] THEN 1 + RunAt(trail, i - 1) ELSE 1

Run == RunAt(hc.trail[hc.window], Len(hc.trail[hc.window]))

\* C1: for any threshold N >= 1, a call of setWindowStatus runs the tmux
\* command only if its status differs from the applied one and has been the
\* status of the last N calls for the window; that call makes the status the
\* applied one and clears pending and count; a call whose status has been
\* handed fewer than N times in a row runs no command and leaves applied alone.
CommitOnlyAfterThreshold ==
    hc.op = "set" =>
        /\ hc.calls # << >> =>
               /\ LastStatus # hc.before.applied
               /\ Run >= threshold
               /\ hc.calls = <<RenameCall(hc.window, LastStatus)>>
               /\ StateAfter.applied = LastStatus
               /\ StateAfter.pending = Empty
               /\ StateAfter.count = 0
        /\ Run < threshold =>
               /\ hc.calls = << >>
               /\ StateAfter.applied = hc.before.applied

\* a commit at the third consecutive call of a status, over an applied one
CommitAtThirdCall ==
    /\ hc.op = "set"
    /\ threshold = 3
    /\ Run = 3
    /\ hc.calls # << >>
    /\ StateAfter.applied = IdleStatus
    /\ hc.before.count = 2

\* C2: a call of setWindowStatus whose status differs from the status of the
\* call before it for the same window, as every call of an alternation does,
\* leaves count at 1 at most, whatever the threshold.
AlternationNeverCounts ==
    (hc.op = "set" /\ Len(hc.trail[hc.window]) >= 2 /\ Run = 1) => StateAfter.count <= 1

\* four calls alternating between two statuses, neither of them applied
FourAlternatingCalls ==
    /\ hc.op = "set"
    /\ threshold >= 2
    /\ hc.trail[hc.window] = <<IdleStatus, WorkingStatus, IdleStatus, WorkingStatus>>
    /\ hc.before.count = 1
    /\ StateAfter.count = 1
    /\ StateAfter.applied = Empty

\* C3: a call of setWindowStatus with the applied status runs no command,
\* leaves applied and unread as they were, and resets pending and count.
AppliedStatusResets ==
    (hc.op = "set" /\ LastStatus = hc.before.applied) =>
        /\ hc.calls = << >>
        /\ StateAfter.applied = hc.before.applied
        /\ StateAfter.unread = hc.before.unread
        /\ StateAfter.pending = Empty
        /\ StateAfter.count = 0

\* the applied status handed while another candidate had been counted once
\* and the window was unread
PartialRunDiscarded ==
    /\ hc.op = "set"
    /\ LastStatus = hc.before.applied
    /\ hc.before.applied # Empty
    /\ hc.before.pending # Empty
    /\ hc.before.count = 1
    /\ hc.before.unread
    /\ StateAfter.count = 0

\* C4: the window name is updated only with a status observed in 2
\* consecutive polling cycles: whenever a cycle runs the tmux command for a
\* window, the status it hands was handed by the cycle before as well.
NameUpdatedAfterTwoCycles ==
    \A w \in cyc.listed :
        (\E i \in 1..Len(cyc.calls) : cyc.calls[i].window = w)
            => cyc.prevHanded[w] = <<cyc.handed[w]>>

---------------------------------------------------------------------------
(* shouldMarkUnread on its own: the arguments are drawn, the function is   *)
(* applied once.  The signatures are those the classifiers return.         *)

ScreenBareClaude == << <<">>">>, << >> >>

ScreenAskCodex == << <<">", " ", "Run", " ", "/review">> >>

ScreenAllSet == << <<"All set.", " ", "Anything", " ", "else?">>, <<">>", " ">> >>

SignatureScreens ==
    {ScreenBlank, ScreenBare, ScreenBareClaude, ScreenAsk, ScreenAskCodex,
     ScreenDone, ScreenAllSet}

PromptSigs == {classifyPaneAttentionSignature(screen) : screen \in SignatureScreens}

DoneSigs == {classifyPaneCompletionSignature(screen) : screen \in SignatureScreens}

RawStatuses == {Empty, IdleStatus, <<"x ", "zzz">>, WorkingStatus}

UnreadArgs ==
    [f : {"shouldMarkUnread"}, wasWorking : BOOLEAN, focused : BOOLEAN, isWorking : BOOLEAN,
     rawStatus : RawStatuses, seenBefore : BOOLEAN,
     promptSig : PromptSigs, prevPromptSig : PromptSigs,
     doneSig : DoneSigs, prevDoneSig : DoneSigs]

InitUnread ==
    /\ statusState = EmptyMap
    /\ lastActive = EmptyMap
    /\ windowWasWorking = EmptyMap
    /\ windowSeen = EmptyMap
    /\ windowPromptSig = EmptyMap
    /\ windowDoneSig = EmptyMap
    /\ windowActiveSig = EmptyMap
    /\ windowActiveAt = EmptyMap
    /\ windowTopic = EmptyMap
    /\ now = 0
    /\ threshold = stabilityThreshold
    /\ hc = NoCall
    /\ cyc = NoCycle
    /\ fin \in UnreadArgs
    /\ fout = Empty

\* the call: fout holds the value returned
Decide ==
    /\ fout = Empty
    /\ fout' = <<shouldMarkUnread(fin.wasWorking, fin.focused, fin.isWorking, fin.rawStatus,
                                  fin.seenBefore, fin.promptSig, fin.prevPromptSig,
                                  fin.doneSig, fin.prevDoneSig)>>
    /\ UNCHANGED <<statusState, lastActive, windowWasWorking, windowSeen, windowPromptSig,
                   windowDoneSig, windowActiveSig, windowActiveAt, windowTopic, now,
                   threshold, hc, cyc, fin>>

SpecUnread == InitUnread /\ [][Decide]_vars

\* the window is unfocused, its status idle and not empty, and it was not
\* working the cycle before
QuietIdle ==
    /\ fout # Empty
    /\ ~fin.focused /\ ~fin.isWorking /\ fin.rawStatus # Empty /\ ~fin.wasWorking

\* a prompt signature is "codex:" or "claude:", the glyph, and the text if any
TextBeyondGlyph(promptSig) == Len(promptSig) > 2

\* C5: shouldMarkUnread returns false whatever its other arguments when the
\* window is focused, when the status is a working one, or when the raw
\* status is empty.
NeverUnreadWhenFocusedWorkingOrEmpty ==
    (fout # Empty /\ (fin.focused \/ fin.isWorking \/ fin.rawStatus = Empty))
        => fout = <<FALSE>>

\* a focused idle window whose agent has just stopped working
FocusedAfterWork ==
    /\ fout = <<FALSE>>
    /\ fin.focused /\ ~fin.isWorking /\ fin.rawStatus = IdleStatus
    /\ fin.wasWorking /\ fin.seenBefore
    /\ fin.doneSig # Empty /\ fin.doneSig # fin.prevDoneSig

\* C7: a window seen for the first time (unfocused, idle, not empty, not
\* working before) is marked unread exactly when its prompt signature has
\* text after the prompt glyph, whatever the completion signature is.
FirstSightUnreadIffPromptText ==
    (QuietIdle /\ ~fin.seenBefore) => (fout = <<TRUE>> <=> TextBeyondGlyph(fin.promptSig))

\* a first sight of a bare codex prompt under a completion line
FirstSightBarePrompt ==
    /\ QuietIdle /\ ~fin.seenBefore
    /\ fin.promptSig = <<"codex:", ">">>
    /\ fin.doneSig # Empty
    /\ fout = <<FALSE>>

\* C8: a window seen before (unfocused, idle, not empty, not working before)
\* is marked unread exactly when its completion signature is not empty and
\* differs from the previous one, or its prompt signature is not empty and
\* differs from the previous one.
SeenUnreadIffSignatureChanged ==
    (QuietIdle /\ fin.seenBefore) =>
        (fout = <<TRUE>> <=>
            \/ fin.doneSig # Empty /\ fin.doneSig # fin.prevDoneSig
            \/ fin.promptSig # Empty /\ fin.promptSig # fin.prevPromptSig)

\* a window seen before whose prompt and completion line are those of the
\* cycle before
SignaturesUnchanged ==
    /\ QuietIdle /\ fin.seenBefore
    /\ fin.promptSig # Empty /\ fin.promptSig = fin.prevPromptSig
    /\ fin.doneSig # Empty /\ fin.doneSig = fin.prevDoneSig
    /\ fout = <<FALSE>>

---------------------------------------------------------------------------
(* The unread flag over the cycles of the daemon *)

\* the status handed starts with status: status itself, or status and a topic
Shows(handed, status) ==
    Len(handed) >= Len(status) /\ SubSeq(handed, 1, Len(status)) = status

IdleNotEmpty(status) == status # Empty /\ ~isWorkingStatus(status)

WithUnreadGlyph(status) == TrimSuffix(status, "zzz") \o <<"mailbox">>

\* C6: a window whose status was a working one in the previous cycle and is
\* idle and not empty in this one, with none of its panes focused, is unread
\* after the cycle, and the status handed to setWindowStatus has the unread
\* glyph where the idle glyph was.
UnreadWhenWorkEnds ==
    \A w \in cyc.listed :
        (cyc.prevWorking[w] /\ IdleNotEmpty(cyc.raw[w]) /\ ~cyc.focused[w]) =>
            /\ isUnread(statusState, w)
            /\ Shows(cyc.handed[w], WithUnreadGlyph(cyc.raw[w]))
            /\ ~Shows(cyc.handed[w], cyc.raw[w])

\* work ends in an unfocused window whose pane shows nothing to tell it by
WorkEndsUnseen ==
    \E w \in cyc.listed :
        /\ cyc.prevWorking[w] /\ IdleNotEmpty(cyc.raw[w]) /\ ~cyc.focused[w]
        /\ windowPromptSig[w] = Empty /\ windowDoneSig[w] = Empty
        /\ ~cyc.unreadBefore[w]
        /\ isUnread(statusState, w)

\* C9: after a cycle, every listed window that had a focused pane or a
\* working status in the cycle is not unread.
FocusOrWorkClearsUnread ==
    \A w \in cyc.listed :
        (cyc.focused[w] \/ isWorkingStatus(cyc.raw[w])) => ~isUnread(statusState, w)

\* an unread window that the cycle finds focused, or working again
UnreadWindowCleared ==
    /\ \E w \in cyc.listed :
           cyc.unreadBefore[w] /\ cyc.focused[w] /\ ~isWorkingStatus(cyc.raw[w])
                               /\ ~isUnread(statusState, w)
    /\ \E w \in cyc.listed :
           cyc.unreadBefore[w] /\ ~cyc.focused[w] /\ isWorkingStatus(cyc.raw[w])
                               /\ ~isUnread(statusState, w)

\* C10: the status handed to setWindowStatus has the unread glyph in place
\* of the idle glyph exactly when the window is unread after the mark and
\* clear step and its raw status ends in the idle glyph; otherwise it is the
\* raw status; an empty or working raw status never gets the unread glyph.
UnreadGlyphIffUnreadIdle ==
    \A w \in cyc.listed :
        /\ IF isUnread(statusState, w) /\ HasSuffix(cyc.raw[w], "zzz")
           THEN Shows(cyc.handed[w], WithUnreadGlyph(cyc.raw[w]))
           ELSE Shows(cyc.handed[w], cyc.raw[w])
        /\ cyc.raw[w] = Empty => cyc.handed[w] = Empty
        /\ (cyc.raw[w] = Empty \/ isWorkingStatus(cyc.raw[w])) =>
               \A i \in 1..Len(cyc.handed[w]) : cyc.handed[w][i] # "mailbox"

\* one window still unread from an earlier cycle and shown so, beside an
\* idle window that is not unread and keeps the idle glyph
UnreadBesideIdle ==
    /\ \E w \in cyc.listed :
           /\ cyc.unreadBefore[w] /\ ~cyc.marked[w]
           /\ isUnread(statusState, w)
           /\ Shows(cyc.handed[w], WithUnreadGlyph(cyc.raw[w]))
    /\ \E w \in cyc.listed :
           /\ ~isUnread(statusState, w)
           /\ Shows(cyc.handed[w], <<"c ", "zzz">>)

---------------------------------------------------------------------------
(* The grace period and the staleness of the active marker: isPaneActive  *)
(* called on its own, once per reading of the clock, between ticks of the  *)
(* clock and the cleanup of a window that is gone.                         *)

MaxClock == 13

Ticks == {1, 4}

ScreenBusyOther ==
    << <<"mdot", " ", "Brewing...", " ", "(esc to interrupt)">>, <<">>", " ">>, << >> >>

GraceCaptures ==
    {CaptureFail, Captured(ScreenBlank), Captured(ScreenBare), Captured(ScreenSpin),
     Captured(ScreenBusy), Captured(ScreenBusyOther)}

InitGrace == Init

NotStatus ==
    UNCHANGED <<statusState, windowWasWorking, windowSeen, windowPromptSig, windowDoneSig,
                windowTopic, threshold, cyc, fin, fout>>

Tick(d) ==
    /\ now < MaxClock
    /\ now' = now + d
    /\ UNCHANGED <<lastActive, windowActiveSig, windowActiveAt, hc>>
    /\ NotStatus

\* what a call of isPaneActive started from and what it found
Probe(window, capture, W, val) ==
    [op |-> "isPaneActive", window |-> window, capture |-> capture, t |-> now,
     val |-> val, raw |-> W.probe[window].raw, stale |-> W.probe[window].stale,
     graceFrom |-> lastActive, trackedSig |-> windowActiveSig,
     trackedAt |-> windowActiveAt]

PaneActive(window, capture) ==
    /\ \E got \in {isPaneActive(Maps, window, [w \in {window} |-> capture], now)} :
           /\ lastActive' = got.W.lastActive
           /\ windowActiveSig' = got.W.activeSig
           /\ windowActiveAt' = got.W.activeAt
           /\ hc' = Probe(window, capture, got.W, got.val)
    /\ UNCHANGED now
    /\ NotStatus

\* the cleanup loops of updateAllPanes on a window that is no longer listed
WindowGone(window) ==
    /\ window \in DOMAIN lastActive \cup DOMAIN windowActiveSig
    /\ lastActive' = Delete(lastActive, window)
    /\ windowActiveSig' = Delete(windowActiveSig, window)
    /\ windowActiveAt' = Delete(windowActiveAt, window)
    /\ hc' = [hc EXCEPT !.op = "gone"]
    /\ UNCHANGED now
    /\ NotStatus

NextGrace ==
    \/ \E d \in Ticks : Tick(d)
    \/ \E capture \in GraceCaptures : PaneActive("w1", capture)
    \/ WindowGone("w1")

SpecGrace == InitGrace /\ [][NextGrace]_vars

\* the capture of the last call failed or is classified inactive
NotActiveNow == ~hc.capture.ok \/ ~classifyPaneContent(hc.capture.content)

\* the last call found a timestamp, and how old it was
Graced == hc.window \in DOMAIN hc.graceFrom

SinceActive == hc.t - hc.graceFrom[hc.window]

\* the last call wrote the timestamp
Stamped ==
    /\ hc.window \in DOMAIN lastActive
    /\ ~Graced \/ lastActive[hc.window] # hc.graceFrom[hc.window]

\* C11: when the capture fails or is classified inactive, isPaneActive
\* returns true exactly when a last-active timestamp is stored for the window
\* and is less than 10 seconds old; when it returns false the stored
\* timestamp is deleted; the timestamp is written only by a call whose
\* capture is active and not stale.
GraceWithinTenSeconds ==
    hc.op = "isPaneActive" =>
        /\ NotActiveNow =>
               /\ hc.val <=> (Graced /\ SinceActive < 10)
               /\ ~hc.val => hc.window \notin DOMAIN lastActive
        /\ Stamped => (~NotActiveNow /\ ~hc.stale)

\* a failed capture nine seconds after the pane was last seen active
GraceAtNineSeconds ==
    /\ hc.op = "isPaneActive"
    /\ ~hc.capture.ok
    /\ Graced /\ SinceActive = 9
    /\ hc.val
    /\ hc.window \in DOMAIN lastActive

\* the active line and the prompt line of the capture of the last call
ActiveLine == classifyPaneActiveSignature(hc.capture.content)

PromptLine == detectPromptSignature(hc.capture.content)

\* the last call found the same active line tracked, and since when
SameLineTracked ==
    /\ hc.window \in DOMAIN hc.trackedSig
    /\ hc.trackedSig[hc.window] = ActiveLine
    /\ hc.window \in DOMAIN hc.trackedAt

\* C13: isStaleActiveMarker returns true exactly when the capture has an
\* active line and a prompt line, the active line is the one tracked for the
\* window, and it has been tracked for 12 seconds or more; when the active
\* line differs from the tracked one or no prompt is visible it returns
\* false and tracks the line from now.
StaleAfterTwelveSeconds ==
    (hc.op = "isPaneActive" /\ hc.raw) =>
        /\ hc.stale <=> /\ ActiveLine # Empty
                        /\ PromptLine # Empty
                        /\ SameLineTracked
                        /\ hc.t - hc.trackedAt[hc.window] >= 12
        /\ (ActiveLine # Empty /\ (PromptLine = Empty \/ ~SameLineTracked)) =>
               /\ ~hc.stale
               /\ hc.window \in DOMAIN windowActiveSig
               /\ windowActiveSig[hc.window] = ActiveLine
               /\ windowActiveAt[hc.window] = hc.t

\* the same active line over a prompt, first tracked twelve seconds before
StaleAtTwelveSeconds ==
    /\ hc.op = "isPaneActive"
    /\ hc.raw /\ hc.stale
    /\ hc.t - hc.trackedAt[hc.window] = 12

---------------------------------------------------------------------------
(* The daemon over a longer time: one window, unfocused, whose agent shows *)
(* a spinner, a prompt, both or nothing, with iterations 2 or 6 seconds    *)
(* apart (the sleep, and the time the commands of an iteration take).     *)

Paces == {PollInterval, 6}

Shown(variant, capture) ==
    [views |-> <<View("w1", variant, FALSE)>>, capIn |-> [w \in {"w1"} |-> capture]]

LongScenes ==
    {Shown("claude", capture) : capture \in GraceCaptures \ {Captured(ScreenBusyOther)}}
    \cup {Shown("wrapped", Captured(ScreenBusy)), Shown("wrapped", Captured(ScreenBlank)),
          Shown("codexBuild", Captured(ScreenBlank)), Shown("none", CaptureFail)}

NoPanes(dt) ==
    /\ now < MaxClock
    /\ Iteration([err |-> TRUE, lines |-> << >>], ProcTableOf(<< >>), EmptyMap, << >>, dt)

PaneShown(scene, dt) ==
    /\ now < MaxClock
    /\ Iteration(ListingOf(scene.views), ProcTableOf(scene.views), scene.capIn, <<"w1">>, dt)

NextLong ==
    \E dt \in Paces :
        \/ NoPanes(dt)
        \/ \E scene \in LongScenes : PaneShown(scene, dt)

SpecLong == Init /\ [][NextLong]_vars

\* the cycle started less than 10 seconds after the window's pane text was
\* last found active
WithinGrace(w) == w \in DOMAIN cyc.graceFrom /\ cyc.t - cyc.graceFrom[w] < 10

\* the capture of the cycle shows a prompt and no live active marker
PromptShown(w) ==
    /\ w \in DOMAIN cyc.cache
    /\ cyc.cache[w].ok
    /\ classifyPaneNeedsAttention(cyc.cache[w].content)

StaleMarkerNotComputing ==
    \A w \in cyc.listed :
        (w \in DOMAIN cyc.probe /\ cyc.probe[w].stale) =>
            /\ ~cyc.probe[w].val
            /\ ~Shows(cyc.raw[w], <<"c ", "brain">>)
            /\ ~Shows(cyc.raw[w], <<"x ", "brain">>)

\* C15: after a cycle in which the capture of a listed window has no active
\* marker line, no active line and no first-seen time is tracked for the
\* window.
TrackingClearedWithoutMarker ==
    \A w \in cyc.listed :
        (/\ w \in DOMAIN cyc.cache
         /\ cyc.cache[w].ok
         /\ classifyPaneActiveSignature(cyc.cache[w].content) = Empty)
            => (w \notin DOMAIN windowActiveSig /\ w \notin DOMAIN windowActiveAt)

\* C16: after every cycle, the per-window maps hold keys of windows of the
\* cycle's pane list only.
MapsHoldListedWindowsOnly ==
    /\ DOMAIN lastActive \subseteq cyc.listed
    /\ DOMAIN statusState \subseteq cyc.listed
    /\ DOMAIN windowWasWorking \subseteq cyc.listed
    /\ DOMAIN windowSeen \subseteq cyc.listed
    /\ DOMAIN windowPromptSig \subseteq cyc.listed
    /\ DOMAIN windowDoneSig \subseteq cyc.listed
    /\ DOMAIN windowActiveSig \subseteq cyc.listed
    /\ DOMAIN windowActiveAt \subseteq cyc.listed
    /\ DOMAIN windowTopic \subseteq cyc.listed

\* C17: in a cycle tmux capture-pane runs at most once for a window, and
\* once exactly for a window whose capture was asked for, failed or not.
CaptureOncePerWindow ==
    /\ \A w \in DOMAIN cyc.ncap : cyc.ncap[w] <= 1
    /\ \A w \in DOMAIN cyc.cache : w \in DOMAIN cyc.ncap /\ cyc.ncap[w] = 1
    /\ DOMAIN cyc.ncap \subseteq DOMAIN cyc.cache

\* a capture that fails in a cycle where the activity check, the attention
\* check and the topic ask for it (an unclassified child process)
FailedCaptureAskedThrice ==
    \E w \in cyc.listed :
        /\ cyc.raw[w] = <<"c ", "gear">>
        /\ w \in DOMAIN cyc.cache /\ ~cyc.cache[w].ok
        /\ cyc.ncap[w] = 1

\* C28: a cycle that lists no pane, tmux failing or not, captures no pane,
\* renames no window and leaves the nine per-window maps as they were.
NoWorkWithoutPanes ==
    [][(now' # now /\ cyc'.listed = {})
          => /\ cyc'.calls = << >>
             /\ cyc'.ncap = EmptyMap
             /\ cyc'.cache = EmptyMap
             /\ UNCHANGED <<statusState, lastActive, windowWasWorking, windowSeen,
                            windowPromptSig, windowDoneSig, windowActiveSig,
                            windowActiveAt, windowTopic>>]_vars

\* a cycle without panes has just ended, and the records of window w1 are
\* kept: its status record with the unread flag, and its activity memory
RecordsKeptWithoutPanes ==
    /\ now > 0 /\ ~cyc.ran /\ cyc.listed = {}
    /\ "w1" \in DOMAIN statusState /\ statusState["w1"].unread
    /\ "w1" \in DOMAIN windowSeen /\ "w1" \in DOMAIN windowPromptSig

-----------------------------------------------------------------------------
(* The grouping of panes by window: the first loop of updateAllPanes run    *)
(* pane by pane over a pane list, each pane with the status getStatus gave  *)
(* for it.                                                                  *)

MaxPanes == 3

PaneStatuses ==
    {Empty, <<"c ", "zzz">>, <<"x ", "zzz">>, <<"c ", "brain">>, <<"c ", "hammer">>}

StatusedPanes == [window : Windows, focused : BOOLEAN, status : PaneStatuses]

PaneLists == UNION {[1..n -> StatusedPanes] : n \in 1..MaxPanes}

InitGroup ==
    /\ statusState = EmptyMap
    /\ lastActive = EmptyMap
    /\ windowWasWorking = EmptyMap
    /\ windowSeen = EmptyMap
    /\ windowPromptSig = EmptyMap
    /\ windowDoneSig = EmptyMap
    /\ windowActiveSig = EmptyMap
    /\ windowActiveAt = EmptyMap
    /\ windowTopic = EmptyMap
    /\ now = 0
    /\ threshold = stabilityThreshold
    /\ hc = NoCall
    /\ cyc = NoCycle
    /\ fin \in PaneLists
    /\ fout = [done |-> 0, summaries |-> EmptyMap]

\* one turn of the loop: the next pane of the list is merged into the summary
\* of its window
NextPane ==
    /\ fout.done < Len(fin)
    /\ fout' = [done      |-> fout.done + 1,
                summaries |-> summarize(fout.summaries,
                                        [window  |-> fin[fout.done + 1].window,
                                         focused |-> fin[fout.done + 1].focused],
                                        fin[fout.done + 1].status)]
    /\ UNCHANGED <<statusState, lastActive, windowWasWorking, windowSeen, windowPromptSig,
                   windowDoneSig, windowActiveSig, windowActiveAt, windowTopic, now,
                   threshold, hc, cyc, fin>>

SpecGroup == InitGroup /\ [][NextPane]_vars

\* the panes of window w among those merged so far
Merged(w) == {k \in 1..fout.done : fin[k].window = w}

\* the highest priority among the merged panes of w
TopPriority(w) ==
    CHOOSE n \in 0..2 :
        /\ \E k \in Merged(w) : statusPriority(fin[k].status) = n
        /\ \A k \in Merged(w) : statusPriority(fin[k].status) <= n

\* the first merged pane of w with the highest priority
FirstAtTop(w) ==
    CHOOSE k \in Merged(w) :
        /\ statusPriority(fin[k].status) = TopPriority(w)
        /\ \A j \in Merged(w) : statusPriority(fin[j].status) = TopPriority(w) => k <= j

\* C18: the summary of a window is focused exactly when one of its panes is,
\* its status has the highest priority among its panes' statuses (working
\* over idle over empty) and is the status of the first listed pane of that
\* priority; a window without a pane has no summary.
WindowSummaryIsFirstOfTopPriority ==
    \A w \in Windows :
        IF Merged(w) = {}
        THEN w \notin DOMAIN fout.summaries
        ELSE /\ w \in DOMAIN fout.summaries
             /\ fout.summaries[w].focused = (\E k \in Merged(w) : fin[k].focused)
             /\ statusPriority(fout.summaries[w].status) = TopPriority(w)
             /\ fout.summaries[w].status = fin[FirstAtTop(w)].status

\* three panes of one window: an idle one, then two working ones of which the
\* first is kept, the focus coming from the last
TieKeepsFirstWorkingPane ==
    /\ fout.done = 3
    /\ \A k \in 1..3 : fin[k].window = "w1"
    /\ fin[1].status = <<"c ", "zzz">> /\ ~fin[1].focused
    /\ fin[2].status = <<"c ", "brain">> /\ ~fin[2].focused
    /\ fin[3].status = <<"c ", "hammer">> /\ fin[3].focused
    /\ fout.summaries["w1"] = [status |-> <<"c ", "brain">>, focused |-> TRUE]

-----------------------------------------------------------------------------
(* The pane text classifiers applied to a captured text: two lines of       *)
(* interest, the first above the second, with plain or blank lines between  *)
(* them and below the second.                                                *)

MaxPad == 13

PlainLine == <<"text">>

PadLines == {PlainLine, << >>}

TextLines ==
    {<< >>, <<" ">>, PlainLine,
     <<"mdot", " ", "Thinking...">>, <<"text", " ", "(esc to interrupt)">>,
     <<"mdot", " ", "text">>, <<"Thinking...">>,
     <<"Done.">>, <<"-Worked for", " ", "text">>, <<"Done.", " ", "(esc to interrupt)">>,
     <<">">>, <<" ", ">", " ", "text">>, <<">>", " ", "text">>}

Pad(line, n) == [k \in 1..n |-> line]

Texts ==
    {<<a>> \o Pad(p, i) \o <<b>> \o Pad(q, j) :
        a \in TextLines, b \in TextLines, p \in PadLines, q \in PadLines,
        i \in 0..MaxPad, j \in 0..MaxPad}

InitText ==
    /\ statusState = EmptyMap
    /\ lastActive = EmptyMap
    /\ windowWasWorking = EmptyMap
    /\ windowSeen = EmptyMap
    /\ windowPromptSig = EmptyMap
    /\ windowDoneSig = EmptyMap
    /\ windowActiveSig = EmptyMap
    /\ windowActiveAt = EmptyMap
    /\ windowTopic = EmptyMap
    /\ now = 0
    /\ threshold = stabilityThreshold
    /\ hc = NoCall
    /\ cyc = NoCycle
    /\ fin \in Texts
    /\ fout = Empty

\* the calls: fout holds the three values returned for the text
Classify ==
    /\ fout = Empty
    /\ fout' = <<[active    |-> classifyPaneContent(fin),
                  signature |-> classifyPaneAttentionSignature(fin),
                  attention |-> classifyPaneNeedsAttention(fin)]>>
    /\ UNCHANGED <<statusState, lastActive, windowWasWorking, windowSeen, windowPromptSig,
                   windowDoneSig, windowActiveSig, windowActiveAt, windowTopic, now,
                   threshold, hc, cyc, fin>>

SpecText == InitText /\ [][Classify]_vars

\* the lines of the text that are not blank
NonBlank == {i \in 1..Len(fin) : TrimSpace(fin[i]) # Empty}

\* the last ScanDepth of them
Scanned == {i \in NonBlank : Cardinality({j \in NonBlank : j >= i}) <= ScanDepth}

Lowest(S) == CHOOSE i \in S : \A j \in S : j <= i

CompletionLines == {i \in Scanned : isCompletionLine(TrimSpace(fin[i]))}

ActiveLines == {i \in Scanned : hasActiveMarker(TrimSpace(fin[i]))}

CodexPrompts ==
    {i \in Scanned : HasPrefixSp(TrimSpace(fin[i]), ">") \/ TrimSpace(fin[i]) = <<">">>}

ClaudePrompts ==
    {i \in Scanned : HasPrefixSp(TrimSpace(fin[i]), ">>") \/ TrimSpace(fin[i]) = <<">>">>}

\* C19: classifyPaneContent answers idle when the lowest marker line among
\* the last 12 non-blank lines is a completion line (a line that is both a
\* completion and an active marker counts as a completion line), active when
\* it is an active marker, and idle when those lines hold no marker.
NearestMarkerDecides ==
    fout # Empty =>
        IF CompletionLines \cup ActiveLines = {} THEN ~fout[1].active
        ELSE IF Lowest(CompletionLines \cup ActiveLines) \in CompletionLines
             THEN ~fout[1].active
        ELSE fout[1].active

\* a completion line below an active marker, both among the lines scanned:
\* the text is idle
CompletionBelowActiveMarker ==
    /\ fout # Empty
    /\ ActiveLines \ CompletionLines # {}
    /\ CompletionLines # {}
    /\ Lowest(ActiveLines \ CompletionLines) < Lowest(CompletionLines)
    /\ ~fout[1].active

\* C20: the attention signature is empty when classifyPaneContent answers
\* active; otherwise it is the lowest prompt line among the last 12 non-blank
\* lines, after "codex:" for a codex prompt and "claude:" for a claude
\* prompt, or empty without a prompt line; the text needs attention exactly
\* when the signature is not empty.
SignatureIsLowestPrompt ==
    fout # Empty =>
        /\ fout[1].attention = (fout[1].signature # Empty)
        /\ fout[1].signature =
              IF fout[1].active \/ CodexPrompts \cup ClaudePrompts = {} THEN Empty
              ELSE IF Lowest(CodexPrompts \cup ClaudePrompts) \in CodexPrompts
                   THEN <<"codex:">> \o TrimSpace(fin[Lowest(CodexPrompts \cup ClaudePrompts)])
              ELSE <<"claude:">> \o TrimSpace(fin[Lowest(CodexPrompts \cup ClaudePrompts)])

\* two prompt lines with plain lines below: the lower one, a claude prompt,
\* is the signature
LowerPromptIsSignature ==
    /\ fout # Empty
    /\ CodexPrompts # {} /\ ClaudePrompts # {}
    /\ Lowest(CodexPrompts) < Lowest(ClaudePrompts)
    /\ Lowest(ClaudePrompts) < Len(fin)
    /\ fout[1].signature = <<"claude:", ">>", " ", "text">>
    /\ fout[1].attention

\* an active marker above a prompt line: the signature is empty
PromptBelowActiveMarker ==
    /\ fout # Empty
    /\ ActiveLines # {} /\ CodexPrompts # {}
    /\ fout[1].active
    /\ fout[1].signature = Empty

-----------------------------------------------------------------------------
(* The process topology: a /proc with init, one pane shell and three more   *)
(* processes, each with what its stat file records as parent and with what  *)
(* it runs.  The scan of /proc, the search for the agent under the shell    *)
(* and getStatus for the pane follow one another as in updateAllPanes.      *)

Tracked == <<11, 12, 13>>

\* the stat file of a process: unreadable, or naming a parent
Stats ==
    {[read |-> FALSE, ppid |-> 0]}
        \cup {[read |-> TRUE, ppid |-> n] : n \in {0, Shell(1)} \cup {Tracked[k] : k \in 1..3}}

Kinds == {"bash", "Claude", "codex", "sleep", "make"}

Comm(kind) == IF kind = "codex" THEN "node" ELSE kind

Cmdline(kind) ==
    CASE kind = "codex" -> <<"node", "NUL", "/usr/bin/codex", "NUL">>
      [] kind = "sleep" -> <<"sleep", "NUL", "5", "NUL">>
      [] kind = "make"  -> <<"make", "NUL", "all", "NUL">>
      [] OTHER          -> <<kind, "NUL">>

Described == [1..3 -> [stat : Stats, kind : Kinds]]

EntryOf(pid, d) ==
    [Process(pid, d.stat.ppid, Comm(d.kind), Cmdline(d.kind))
        EXCEPT !.stat = IF d.stat.read THEN @ ELSE [err |-> TRUE, data |-> Empty]]

ProcTable(ds) ==
    <<Process(1, 0, "init", <<"init", "NUL">>),
      Process(Shell(1), 1, "bash", <<"-bash", "NUL">>)>>
        \o [k \in 1..3 |-> EntryOf(Tracked[k], ds[k])]

ProcCaptures == {CaptureFail, Captured(ScreenBare), Captured(ScreenSpin)}

InitProc ==
    /\ statusState = EmptyMap
    /\ lastActive = EmptyMap
    /\ windowWasWorking = EmptyMap
    /\ windowSeen = EmptyMap
    /\ windowPromptSig = EmptyMap
    /\ windowDoneSig = EmptyMap
    /\ windowActiveSig = EmptyMap
    /\ windowActiveAt = EmptyMap
    /\ windowTopic = EmptyMap
    /\ now = 0
    /\ threshold = stabilityThreshold
    /\ hc = NoCall
    /\ cyc = NoCycle
    /\ fin \in Described
    /\ fout = Empty

ProcUnchanged ==
    UNCHANGED <<statusState, windowWasWorking, windowSeen, windowPromptSig, windowDoneSig,
                now, threshold, cyc, fin>>

\* buildChildMap: fout[1] is the map
ScanProc ==
    /\ fout = Empty
    /\ fout' = <<buildChildMap(ProcTable(fin))>>
    /\ UNCHANGED <<lastActive, windowActiveSig, windowActiveAt, windowTopic, hc>>
    /\ ProcUnchanged

\* findAgent for the pane shell: fout[2] is the agent found
FindAgent ==
    /\ Len(fout) = 1
    /\ fout' = Append(fout, findAgent(ProcTable(fin), Shell(1), fout[1]))
    /\ UNCHANGED <<lastActive, windowActiveSig, windowActiveAt, windowTopic, hc>>
    /\ ProcUnchanged

\* getStatus for the pane, its window showing capture
PaneStatus(capture) ==
    /\ Len(fout) = 2
    /\ hc.op = "none"
    /\ \E got \in {getStatus(Maps, "w1", Shell(1), ProcTable(fin), fout[1],
                             [w \in {"w1"} |-> capture], now)} :
           /\ lastActive' = got.W.lastActive
           /\ windowActiveSig' = got.W.activeSig
           /\ windowActiveAt' = got.W.activeAt
           /\ windowTopic' = got.W.topic
           /\ hc' = [op |-> "getStatus", capture |-> capture, val |-> got.val,
                     asked |-> DOMAIN got.W.ncap,
                     signals |-> IF fout[2].pid = 0 THEN << >>
                                 ELSE childSignalsOf(ProcTable(fin), fout[2].pid, fout[1])]
    /\ UNCHANGED fout
    /\ ProcUnchanged

NextProc == ScanProc \/ FindAgent \/ \E capture \in ProcCaptures : PaneStatus(capture)

SpecProc == InitProc /\ [][NextProc]_vars

\* what the stat file of a described process records as parent: 0 when it
\* cannot be read
Recorded(pid) ==
    CASE pid = 1        -> 0
      [] pid = Shell(1) -> 1
      [] OTHER -> LET d == fin[CHOOSE k \in 1..3 : Tracked[k] = pid]
                  IN  IF d.stat.read THEN d.stat.ppid ELSE 0

Pids == {1, Shell(1)} \cup {Tracked[k] : k \in 1..3}

\* the processes whose recorded parent is pid
RecordedChildren(pid) == {c \in Pids : Recorded(c) = pid}

Generation1 == RecordedChildren(Shell(1))

Generation2 == UNION {RecordedChildren(c) : c \in Generation1}

Generation3 == UNION {RecordedChildren(c) : c \in Generation2}

\* the command line of the process has an agent marker
Marked(pid) ==
    \E k \in 1..3 : Tracked[k] = pid /\ fin[k].kind \in {"Claude", "codex"}

NotFound == [pid |-> 0, name |-> ""]

\* C21: when no child and no grandchild of the shell has an agent marker in
\* its command line, findAgent returns id 0 and the empty kind, deeper
\* matches or not, and getStatus returns the empty status.
NoAgentBeyondGrandchildren ==
    /\ (Len(fout) = 2 /\ \A p \in Generation1 \cup Generation2 : ~Marked(p))
           => fout[2] = NotFound
    /\ (hc.op = "getStatus" /\ fout[2] = NotFound) => hc.val = Empty

\* a great-grandchild of the shell runs the agent: it is not found and the
\* status is empty
GreatGrandchildNotFound ==
    /\ hc.op = "getStatus"
    /\ \A p \in Generation1 \cup Generation2 : ~Marked(p)
    /\ \E p \in Generation3 : Marked(p)
    /\ fout[2] = NotFound
    /\ hc.val = Empty

\* C27: when the agent has descendants that give a signal, getStatus returns
\* a working status, prompt or no prompt, and does not ask for the pane text.
ProcessesDecideWhenDescendantsLive ==
    (hc.op = "getStatus" /\ hc.signals # << >>)
        => (isWorkingStatus(hc.val) /\ hc.asked = {})

\* the order in which findAgent reads command lines: each child of the
\* shell, followed at once by that child's own children
RECURSIVE SearchOrder(_, _, _)
SearchOrder(childMap, children, i) ==
    IF i > Len(children) THEN << >>
    ELSE <<children[i]>> \o Get(childMap, children[i], << >>)
             \o SearchOrder(childMap, children, i + 1)

\* the first process of a sequence with an agent marker, 0 without one
FirstMarked(pids) ==
    IF \A i \in 1..Len(pids) : ~Marked(pids[i]) THEN 0
    ELSE pids[CHOOSE i \in 1..Len(pids) :
                  Marked(pids[i]) /\ \A j \in 1..(i - 1) : ~Marked(pids[j])]

\* C22 as stated: when a child of the shell has an agent marker, findAgent
\* returns the first such child, whatever the grandchildren are.
MarkedChildBeforeAnyGrandchild ==
    (Len(fout) = 2 /\ FirstMarked(Get(fout[1], Shell(1), << >>)) # 0)
        => fout[2].pid = FirstMarked(Get(fout[1], Shell(1), << >>))

\* C22, amended: findAgent returns the first process with an agent marker in
\* the order child, that child's children, next child, its children, and so
\* on: a marked child comes before its own children and before the later
\* children, but after the children of the earlier ones.
FirstMarkedChildByChild ==
    Len(fout) = 2
        => fout[2].pid = FirstMarked(SearchOrder(fout[1], Get(fout[1], Shell(1), << >>), 1))

\* a marked grandchild under the first child is returned although the second
\* child is marked too
GrandchildOfEarlierChildWins ==
    /\ Len(fout) = 2
    /\ Recorded(11) = Shell(1) /\ ~Marked(11)
    /\ Recorded(12) = Shell(1) /\ Marked(12)
    /\ Recorded(13) = 11 /\ Marked(13)
    /\ fout[2].pid = 13

\* there is an edge from parent to child in the map built
Edge(parent, child) ==
    \E i \in 1..Len(Get(fout[1], parent, << >>)) : fout[1][parent][i] = child

-----------------------------------------------------------------------------
(* classifyChildren applied to a list of descendant signals and to the same *)
(* signals in another order.                                                 *)

MaxSignals == 3

Signals ==
    {<<"make", " ", "all", " ">>, <<"cc1", " ">>, <<"jest", " ">>,
     <<"pnpm", " ", "install", " ">>, <<"npm", " ", "run", " ", "build", " ">>,
     <<"git", " ", "pull", " ">>, <<"curl", " ">>, <<"sleep", " ", "5", " ">>,
     <<"go">>, <<"build">>}

SignalLists == UNION {[1..n -> Signals] : n \in 1..MaxSignals}

\* the permutations of 1..n
Reorderings(n) == {f \in [1..n -> 1..n] : \A k \in 1..n : \E i \in 1..n : f[i] = k}

Reordered(names, order) == [i \in 1..Len(names) |-> names[order[i]]]

InitChildren ==
    /\ statusState = EmptyMap
    /\ lastActive = EmptyMap
    /\ windowWasWorking = EmptyMap
    /\ windowSeen = EmptyMap
    /\ windowPromptSig = EmptyMap
    /\ windowDoneSig = EmptyMap
    /\ windowActiveSig = EmptyMap
    /\ windowActiveAt = EmptyMap
    /\ windowTopic = EmptyMap
    /\ now = 0
    /\ threshold = stabilityThreshold
    /\ hc = NoCall
    /\ cyc = NoCycle
    /\ \E names \in SignalLists : \E order \in Reorderings(Len(names)) :
           fin = [names |-> names, order |-> order]
    /\ fout = Empty

\* the call on the list as given: fout[1] is the glyph returned
ClassifyListed ==
    /\ fout = Empty
    /\ fout' = <<classifyChildren(fin.names)>>
    /\ UNCHANGED <<statusState, lastActive, windowWasWorking, windowSeen, windowPromptSig,
                   windowDoneSig, windowActiveSig, windowActiveAt, windowTopic, now,
                   threshold, hc, cyc, fin>>

\* the call on the reordered list: fout[2] is the glyph returned
ClassifyReordered ==
    /\ Len(fout) = 1
    /\ fout' = Append(fout, classifyChildren(Reordered(fin.names, fin.order)))
    /\ UNCHANGED <<statusState, lastActive, windowWasWorking, windowSeen, windowPromptSig,
                   windowDoneSig, windowActiveSig, windowActiveAt, windowTopic, now,
                   threshold, hc, cyc, fin>>

NextChildren == ClassifyListed \/ ClassifyReordered

SpecChildren == InitChildren /\ [][NextChildren]_vars

\* C24: classifyChildren returns the same glyph for a list of signals and
\* for every reordering of it.
SameGlyphInAnyOrder == Len(fout) = 2 => fout[1] = fout[2]

\* three different signals, classified by version control, in another order
ReorderedGitAndCurl ==
    /\ Len(fout) = 2
    /\ Len(fin.names) = 3
    /\ fin.names[1] = <<"curl", " ">>
    /\ fin.names[2] = <<"sleep", " ", "5", " ">>
    /\ fin.names[3] = <<"git", " ", "pull", " ">>
    /\ fin.order = <<3, 1, 2>>
    /\ fout = <<"shuffle", "shuffle">>

\* the marker groups of classifyChildren, by signal
BuildSignal(signal) == containsAny(signal, BuildWords, BuildPhrases)

TestSignal(signal) ==
    containsAny(signal, {"jest", "vitest", "pytest", "mocha", "phpunit", "rspec"}, {})

PackageSignal(signal) ==
    containsAny(signal, {"npm", "yarn", "pnpm", "pip", "apt", "brew", "pacman"}, {})

GitSignal(signal) == containsAny(signal, {"git"}, {})

NetSignal(signal) == containsAny(signal, {"curl", "wget"}, {})

Some(names, Group(_)) == \E i \in 1..Len(names) : Group(names[i])

\* C25: the glyph is that of the first group, in the order build, test,
\* package, version control, network, of which some signal holds a marker,
\* and the generic glyph when no signal holds a marker.
HighestGroupWins ==
    Len(fout) >= 1 =>
        fout[1] = IF Some(fin.names, BuildSignal) THEN "hammer"
                  ELSE IF Some(fin.names, TestSignal) THEN "testtube"
                  ELSE IF Some(fin.names, PackageSignal) THEN "package"
                  ELSE IF Some(fin.names, GitSignal) THEN "shuffle"
                  ELSE IF Some(fin.names, NetSignal) THEN "globe"
                  ELSE "gear"

\* a package signal, a test signal and a build signal, in this order: build
BuildOverTestAndPackage ==
    /\ Len(fout) >= 1
    /\ fin.names = <<<<"pnpm", " ", "install", " ">>, <<"jest", " ">>, <<"cc1", " ">>>>
    /\ fout[1] = "hammer"

-----------------------------------------------------------------------------
(* One descendant of the agent: what its comm and cmdline files hold, and   *)
(* whether getStatus takes a signal from it.                                 *)

Unreadable == [err |-> TRUE, data |-> Empty]

CommFiles ==
    {Unreadable} \cup {Readable(<<name, "\n">>) :
        name \in {"claude", "Codex", "node", "make", "MainThread", "sleep", "bash"}}

CmdlineFiles ==
    {Unreadable, Readable(<<"claude", "NUL">>), Readable(<<"Claude", "NUL">>),
     Readable(<<"node", "NUL", "/usr/bin/codex", "NUL">>),
     Readable(<<"node", "NUL", "cli.ts", "NUL", "build", "NUL">>),
     Readable(<<"make", "NUL", "all", "NUL">>), Readable(<<"sleep", "NUL", "5", "NUL">>),
     Readable(<<"bash", "NUL">>)}

\* /proc with the shell, the agent under it and the descendant under the agent
WithDescendant(files) ==
    <<Process(Shell(1), 1, "bash", <<"-bash", "NUL">>),
      Process(Shell(1) + 1, Shell(1), "claude", <<"claude", "NUL">>),
      [Process(Shell(1) + 2, Shell(1) + 1, "x", << >>)
          EXCEPT !.comm = files.comm, !.cmdline = files.cmdline]>>

InitDescendant ==
    /\ statusState = EmptyMap
    /\ lastActive = EmptyMap
    /\ windowWasWorking = EmptyMap
    /\ windowSeen = EmptyMap
    /\ windowPromptSig = EmptyMap
    /\ windowDoneSig = EmptyMap
    /\ windowActiveSig = EmptyMap
    /\ windowActiveAt = EmptyMap
    /\ windowTopic = EmptyMap
    /\ now = 0
    /\ threshold = stabilityThreshold
    /\ hc = NoCall
    /\ cyc = NoCycle
    /\ fin \in [comm : CommFiles, cmdline : CmdlineFiles]
    /\ fout = Empty

\* the loop of getStatus over the descendants of the agent: fout holds the
\* answer of isAgentLikeProcess for the descendant and the signals collected
CollectSignals ==
    /\ fout = Empty
    /\ fout' = <<[agentLike |-> isAgentLikeProcess(
                                    ToLower(readComm(WithDescendant(fin), Shell(1) + 2)),
                                    ToLower(readCmdline(WithDescendant(fin), Shell(1) + 2))),
                  signals   |-> childSignalsOf(WithDescendant(fin), Shell(1) + 1,
                                               buildChildMap(WithDescendant(fin)))]>>
    /\ UNCHANGED <<statusState, lastActive, windowWasWorking, windowSeen, windowPromptSig,
                   windowDoneSig, windowActiveSig, windowActiveAt, windowTopic, now,
                   threshold, hc, cyc, fin>>

SpecDescendant == InitDescendant /\ [][CollectSignals]_vars

\* the command name holds an agent marker
NameMarked == fin.comm \in {Readable(<<"claude", "\n">>), Readable(<<"Codex", "\n">>)}

NameNode == fin.comm = Readable(<<"node", "\n">>)

\* the command line holds an agent marker
LineMarked ==
    fin.cmdline \in {Readable(<<"claude", "NUL">>), Readable(<<"Claude", "NUL">>),
                     Readable(<<"node", "NUL", "/usr/bin/codex", "NUL">>)}

LineEmpty == fin.cmdline = Unreadable

\* C26 as stated: a descendant is discarded, and gives no signal, whenever
\* its command name or its command line holds an agent marker; a node
\* process is discarded exactly when its command line is empty or marked.
DiscardedWhenNameOrLineMarked ==
    fout # Empty =>
        /\ (NameMarked \/ LineMarked) => (fout[1].agentLike /\ fout[1].signals = << >>)
        /\ NameNode => (fout[1].agentLike <=> (LineEmpty \/ LineMarked))

\* C26, amended: a descendant is discarded whenever its command line holds
\* an agent marker; one whose command name holds an agent marker, or is
\* node, is discarded exactly when its command line is empty or marked; a
\* discarded descendant gives no signal.
DiscardedWhenLineMarkedOrEmpty ==
    fout # Empty =>
        /\ LineMarked => fout[1].agentLike
        /\ (NameMarked \/ NameNode) => (fout[1].agentLike <=> (LineEmpty \/ LineMarked))
        /\ fout[1].agentLike => fout[1].signals = << >>

\* a process named claude with the command line of make: kept, and its
\* command line is the signal
AgentNamedWorkerKept ==
    /\ fout # Empty
    /\ fin.comm = Readable(<<"claude", "\n">>)
    /\ fin.cmdline = Readable(<<"make", "NUL", "all", "NUL">>)
    /\ ~fout[1].agentLike
    /\ fout[1].signals = <<<<"make", " ", "all", " ">>>>

-----------------------------------------------------------------------------
(* The window names tmux shows.  setWindowStatus is called cycle after      *)
(* cycle with the status of a window; the tmux command it runs succeeds or  *)
(* fails, and the code does not look at which (exec.Command(...).Run()       *)
(* without a check).  fout holds the name each window shows.                 *)

\* tmux names the window by itself
AutomaticName == <<"auto">>

\* the name a window shows once the command for status has run
NameFor(status) == IF status = Empty THEN AutomaticName ELSE status

ShownStatuses == {Empty, <<"c ", "zzz">>, <<"c ", "brain">>}

InitNames ==
    /\ statusState = EmptyMap
    /\ lastActive = EmptyMap
    /\ windowWasWorking = EmptyMap
    /\ windowSeen = EmptyMap
    /\ windowPromptSig = EmptyMap
    /\ windowDoneSig = EmptyMap
    /\ windowActiveSig = EmptyMap
    /\ windowActiveAt = EmptyMap
    /\ windowTopic = EmptyMap
    /\ now = 0
    /\ threshold = stabilityThreshold
    /\ hc = NoCall
    /\ cyc = NoCycle
    /\ fin = NoArgs
    /\ fout = [w \in Windows |-> AutomaticName]

\* the names after the tmux commands of a call, which take effect when tmux
\* runs them (works)
RECURSIVE Renamed(_, _, _)
Renamed(names, calls, works) ==
    IF calls = << >> \/ ~works THEN names
    ELSE Renamed([names EXCEPT ![Head(calls).window] = NameFor(Head(calls).name)],
                 Tail(calls), works)

\* one call of setWindowStatus; works tells whether tmux runs the command
SetShown(window, status, works) ==
    /\ \E set \in {setWindowStatus(statusState, window, status)} :
           /\ statusState' = set.ss
           /\ fout' = Renamed(fout, set.calls, works)
           /\ hc' = [op |-> "setWindowStatus", window |-> window, status |-> status,
                     works |-> works, calls |-> set.calls]
    /\ UNCHANGED <<lastActive, windowWasWorking, windowSeen, windowPromptSig, windowDoneSig,
                   windowActiveSig, windowActiveAt, windowTopic, now, threshold, cyc, fin>>

\* the window is closed and a new one takes its place: the cleanup loop
\* forgets its record
WindowReplaced(window) ==
    /\ window \in DOMAIN statusState
    /\ statusState' = Delete(statusState, window)
    /\ fout' = [fout EXCEPT ![window] = AutomaticName]
    /\ hc' = [op |-> "forget", window |-> window, status |-> Empty, works |-> TRUE,
              calls |-> << >>]
    /\ UNCHANGED <<lastActive, windowWasWorking, windowSeen, windowPromptSig, windowDoneSig,
                   windowActiveSig, windowActiveAt, windowTopic, now, threshold, cyc, fin>>

NextNames ==
    \/ \E window \in Windows, status \in ShownStatuses, works \in BOOLEAN :
           SetShown(window, status, works)
    \/ \E window \in Windows : WindowReplaced(window)

SpecNames == InitNames /\ [][NextNames]_vars

\* C29: after a call of setWindowStatus during which tmux works, the window
\* shows the name of the status handed over, whether or not the command of
\* an earlier call failed and whether or not the status changed since.
NameFollowsStatusOnceTmuxWorks ==
    (hc.op = "setWindowStatus" /\ hc.works) => fout[hc.window] = NameFor(hc.status)

-----------------------------------------------------------------------------
(* Two goroutines call isPaneActive for window w1 at once, as a test or an  *)
(* instrumentation may.  A step is one statement of isPaneActive,           *)
(* isStaleActiveMarker or clearActiveMarker that touches a shared map, or   *)
(* the lock and unlock of lastActiveMu.  fin holds the capture each         *)
(* goroutine gets, fout the position and the locals of each goroutine, the  *)
(* owner of lastActiveMu, and whether the Go runtime has stopped the        *)
(* program on a concurrent map access.                                      *)

Goroutines == {"g1", "g2"}

RaceCaptures == {Captured(ScreenBusy), Captured(ScreenSpin), Captured(ScreenBare)}

Entering == [pc |-> "call", active |-> FALSE, sig |-> Empty]

InitRace ==
    /\ statusState = EmptyMap
    /\ lastActive = EmptyMap
    /\ windowWasWorking = EmptyMap
    /\ windowSeen = EmptyMap
    /\ windowPromptSig = EmptyMap
    /\ windowDoneSig = EmptyMap
    /\ windowActiveSig = EmptyMap
    /\ windowActiveAt = EmptyMap
    /\ windowTopic = EmptyMap
    /\ now = 0
    /\ threshold = stabilityThreshold
    /\ hc = NoCall
    /\ cyc = NoCycle
    /\ fin \in [Goroutines -> RaceCaptures]
    /\ fout = [loc |-> [g \in Goroutines |-> Entering], mutex |-> "free", crashed |-> FALSE]

At(g, pc) == ~fout.crashed /\ fout.loc[g].pc = pc

\* goroutine g goes on to pc with the locals changed as given
Goes(g, pc, active, sig) ==
    fout' = [fout EXCEPT !.loc[g] = [pc |-> pc, active |-> active, sig |-> sig]]

RaceUnchanged ==
    UNCHANGED <<statusState, windowWasWorking, windowSeen, windowPromptSig, windowDoneSig,
                windowTopic, now, threshold, hc, cyc, fin>>

\* getPaneContent and classifyPaneContent, then the first lines of
\* isStaleActiveMarker: no shared map is touched
Call(g) ==
    /\ At(g, "call")
    /\ IF fin[g].ok /\ classifyPaneContent(fin[g].content)
       THEN IF classifyPaneActiveSignature(fin[g].content) = Empty
            THEN Goes(g, "lock", TRUE, Empty)
            ELSE IF detectPromptSignature(fin[g].content) = Empty
            THEN Goes(g, "writeSig", TRUE, classifyPaneActiveSignature(fin[g].content))
            ELSE Goes(g, "readSig", TRUE, classifyPaneActiveSignature(fin[g].content))
       ELSE Goes(g, "clearSig", FALSE, Empty)
    /\ UNCHANGED <<lastActive, windowActiveSig, windowActiveAt>>
    /\ RaceUnchanged

\* prevSig, ok := windowActiveSig[window]
ReadSig(g) ==
    /\ At(g, "readSig")
    /\ IF "w1" \notin DOMAIN windowActiveSig \/ windowActiveSig["w1"] # fout.loc[g].sig
       THEN Goes(g, "writeSig", TRUE, fout.loc[g].sig)
       ELSE Goes(g, "readAt", TRUE, fout.loc[g].sig)
    /\ UNCHANGED <<lastActive, windowActiveSig, windowActiveAt>>
    /\ RaceUnchanged

\* windowActiveSig[window] = activeSig
WriteSig(g) ==
    /\ At(g, "writeSig")
    /\ windowActiveSig' = Put(windowActiveSig, "w1", fout.loc[g].sig)
    /\ Goes(g, "writeAt", TRUE, fout.loc[g].sig)
    /\ UNCHANGED <<lastActive, windowActiveAt>>
    /\ RaceUnchanged

\* startedAt, ok := windowActiveAt[window]
ReadAt(g) ==
    /\ At(g, "readAt")
    /\ IF "w1" \notin DOMAIN windowActiveAt
       THEN Goes(g, "writeAt", TRUE, fout.loc[g].sig)
       ELSE Goes(g, "lock", ~(now - windowActiveAt["w1"] >= staleActiveThreshold),
                 fout.loc[g].sig)
    /\ UNCHANGED <<lastActive, windowActiveSig, windowActiveAt>>
    /\ RaceUnchanged

\* windowActiveAt[window] = now
WriteAt(g) ==
    /\ At(g, "writeAt")
    /\ windowActiveAt' = Put(windowActiveAt, "w1", now)
    /\ Goes(g, "lock", TRUE, fout.loc[g].sig)
    /\ UNCHANGED <<lastActive, windowActiveSig>>
    /\ RaceUnchanged

\* delete(windowActiveSig, window)
ClearSig(g) ==
    /\ At(g, "clearSig")
    /\ windowActiveSig' = Delete(windowActiveSig, "w1")
    /\ Goes(g, "clearAt", FALSE, Empty)
    /\ UNCHANGED <<lastActive, windowActiveAt>>
    /\ RaceUnchanged

\* delete(windowActiveAt, window)
ClearAt(g) ==
    /\ At(g, "clearAt")
    /\ windowActiveAt' = Delete(windowActiveAt, "w1")
    /\ Goes(g, "lock", FALSE, Empty)
    /\ UNCHANGED <<lastActive, windowActiveSig>>
    /\ RaceUnchanged

\* lastActiveMu.Lock()
Lock(g) ==
    /\ At(g, "lock")
    /\ fout.mutex = "free"
    /\ fout' = [fout EXCEPT !.mutex = g, !.loc[g].pc = "grace"]
    /\ UNCHANGED <<lastActive, windowActiveSig, windowActiveAt>>
    /\ RaceUnchanged

\* the statements on lastActive, lastActiveMu held
Grace(g) ==
    /\ At(g, "grace")
    /\ \E got \in {graceActive(Maps, "w1", fout.loc[g].active, now)} :
           /\ lastActive' = got.W.lastActive
           /\ Goes(g, "return", got.val, fout.loc[g].sig)
    /\ UNCHANGED <<windowActiveSig, windowActiveAt>>
    /\ RaceUnchanged

\* the deferred lastActiveMu.Unlock()
Return(g) ==
    /\ At(g, "return")
    /\ fout' = [fout EXCEPT !.mutex = "free", !.loc[g].pc = "done"]
    /\ UNCHANGED <<lastActive, windowActiveSig, windowActiveAt>>
    /\ RaceUnchanged

\* the shared map the statement at pc touches, and whether it writes
Touches(pc) ==
    CASE pc = "readSig"  -> [map |-> "windowActiveSig", write |-> FALSE]
      [] pc = "writeSig" -> [map |-> "windowActiveSig", write |-> TRUE]
      [] pc = "clearSig" -> [map |-> "windowActiveSig", write |-> TRUE]
      [] pc = "readAt"   -> [map |-> "windowActiveAt", write |-> FALSE]
      [] pc = "writeAt"  -> [map |-> "windowActiveAt", write |-> TRUE]
      [] pc = "clearAt"  -> [map |-> "windowActiveAt", write |-> TRUE]
      [] pc = "grace"    -> [map |-> "lastActive", write |-> TRUE]
      [] OTHER           -> [map |-> "none", write |-> FALSE]

\* g and h are about to touch the same map, one of them writing, and
\* neither holds a mutex
Racing(g, h) ==
    /\ g # h
    /\ Touches(fout.loc[g].pc).map # "none"
    /\ Touches(fout.loc[g].pc).map = Touches(fout.loc[h].pc).map
    /\ Touches(fout.loc[g].pc).write \/ Touches(fout.loc[h].pc).write
    /\ fout.mutex \notin {g, h}

\* the Go runtime finds a map read or written while it is written and stops
\* the program ("fatal error: concurrent map writes"); it need not find it
Crash ==
    /\ ~fout.crashed
    /\ \E g \in Goroutines, h \in Goroutines : Racing(g, h)
    /\ fout' = [fout EXCEPT !.crashed = TRUE]
    /\ UNCHANGED <<lastActive, windowActiveSig, windowActiveAt>>
    /\ RaceUnchanged

NextRace ==
    \/ \E g \in Goroutines :
           \/ Call(g) \/ ReadSig(g) \/ WriteSig(g) \/ ReadAt(g) \/ WriteAt(g)
           \/ ClearSig(g) \/ ClearAt(g) \/ Lock(g) \/ Grace(g) \/ Return(g)
    \/ Crash

SpecRace == InitRace /\ [][NextRace]_vars

\* C30: a goroutine about to read or write a per-window map holds a mutex,
\* so that no two goroutines are about to touch the same map, one of them
\* writing, without one; and the program is never stopped for it.
MapsTouchedUnderMutex ==
    /\ \A g \in Goroutines :
           Touches(fout.loc[g].pc).map # "none" => fout.mutex = g
    /\ \A g \in Goroutines, h \in Goroutines : ~Racing(g, h)
    /\ ~fout.crashed


---------------------------------------------------------------------------
(* The daemon again: what a cycle leaves behind for each listed window.   *)
(* The properties below are checked under Spec.                           *)

\* the tmux commands of the last cycle that name window w
CallsFor(w) == {i \in 1..Len(cyc.calls) : cyc.calls[i].window = w}

\* C31: a listed window none of whose panes has an agent is handed the
\* empty status, which is then the applied one; the only tmux command run
\* for it turns automatic-rename on, and that command is run when a status
\* was applied before; no cycle renames a window to the empty name.
NoAgentRestoresAutomaticName ==
    cyc.ran =>
        /\ \A w \in cyc.listed :
               cyc.raw[w] = Empty =>
                   /\ cyc.handed[w] = Empty
                   /\ Get(statusState, w, ZeroState).applied = Empty
                   /\ \A i \in CallsFor(w) : cyc.calls[i].cmd = "automatic-rename"
                   /\ cyc.appliedBefore[w] # Empty => CallsFor(w) # {}
        /\ \A i \in 1..Len(cyc.calls) :
               cyc.calls[i].cmd = "rename-window" => cyc.calls[i].name # Empty

\* a window that showed a status is listed without an agent
AgentGoneFromWindow ==
    /\ cyc.ran
    /\ \E w \in cyc.listed :
           /\ cyc.raw[w] = Empty
           /\ cyc.appliedBefore[w] # Empty
           /\ \E i \in CallsFor(w) : cyc.calls[i].cmd = "automatic-rename"


---------------------------------------------------------------------------
(* getStatus called again and again for one pane of window w1 while the   *)
(* clock advances: the agent alone, the agent with a descendant of no     *)
(* marker group, the agent with a build.                                  *)

StatusVariants == {"claude", "wrapped", "codexBuild"}

StatusCaptures ==
    {CaptureFail, Captured(ScreenBlank), Captured(ScreenBare), Captured(ScreenSpin)}

PaneOf(variant) == <<View("w1", variant, FALSE)>>

GetStatus(variant, capture) ==
    /\ \E got \in {getStatus(Maps, "w1", Shell(1), ProcTableOf(PaneOf(variant)),
                             buildChildMap(ProcTableOf(PaneOf(variant))),
                             [w \in {"w1"} |-> capture], now)} :
           /\ lastActive' = got.W.lastActive
           /\ windowActiveSig' = got.W.activeSig
           /\ windowActiveAt' = got.W.activeAt
           /\ hc' = [op |-> "getStatus", capture |-> capture, val |-> got.val, t |-> now,
                     signals |-> childSignalsOf(ProcTableOf(PaneOf(variant)), Shell(1) + 1,
                                                buildChildMap(ProcTableOf(PaneOf(variant)))),
                     probed |-> "w1" \in DOMAIN got.W.probe,
                     active |-> "w1" \in DOMAIN got.W.probe /\ got.W.probe["w1"].val,
                     graceFrom |-> lastActive]
    /\ UNCHANGED now
    /\ NotStatus

StatusPaces == {4}

NextStatus ==
    \/ \E d \in StatusPaces : Tick(d)
    \/ \E variant \in StatusVariants, capture \in StatusCaptures : GetStatus(variant, capture)

SpecStatus == Init /\ [][NextStatus]_vars

\* the descendant signals of the last call classify as the generic category
GenericCategory == hc.signals # << >> /\ classifyChildren(hc.signals) = "gear"

\* the capture of the last call shows a prompt that needs attention
PromptVisible == hc.capture.ok /\ classifyPaneNeedsAttention(hc.capture.content)

---------------------------------------------------------------------------
(* collectDescendants, one iteration of its loop at a time, on the        *)
(* topologies buildChildMap makes of a process table of MaxNodes entries, *)
(* each recording any parent, none (0), itself or a descendant of its own *)
(* included.  fin is the call, fout the queue and the result so far.      *)

MaxNodes == 4

Nodes == 1..MaxNodes

ParentTables == [Nodes -> 0..MaxNodes]

NodeTable(parent) ==
    [k \in Nodes |-> Process(k, parent[k], "bash", <<"bash", "NUL">>)]

InitCollect ==
    /\ statusState = EmptyMap
    /\ lastActive = EmptyMap
    /\ windowWasWorking = EmptyMap
    /\ windowSeen = EmptyMap
    /\ windowPromptSig = EmptyMap
    /\ windowDoneSig = EmptyMap
    /\ windowActiveSig = EmptyMap
    /\ windowActiveAt = EmptyMap
    /\ windowTopic = EmptyMap
    /\ now = 0
    /\ threshold = stabilityThreshold
    /\ hc = NoCall
    /\ cyc = NoCycle
    /\ \E parent \in ParentTables, pid \in Nodes :
           /\ fin = [pid |-> pid, parent |-> parent,
                     childMap |-> buildChildMap(NodeTable(parent))]
           /\ fout = [queue |-> Get(fin.childMap, pid, << >>), result |-> << >>]

\* Faulty variant of collectStep: the children of the process taken from
\* the queue are not queued
collectStepShallow(childMap, st) ==
    [queue  |-> Tail(st.queue),
     result |-> Append(st.result, Head(st.queue))]

\* one iteration of the loop of collectDescendants
collectStep(childMap, st) ==
    [queue  |-> Tail(st.queue) \o Get(childMap, Head(st.queue), << >>),
     result |-> Append(st.result, Head(st.queue))]

\* the loop runs while the queue is not empty; the model follows it until
\* the result holds more processes than the table has
CollectNext ==
    /\ Len(fout.queue) > 0
    /\ Len(fout.result) <= MaxNodes
    /\ fout' = collectStep(fin.childMap, fout)
    /\ UNCHANGED <<statusState, lastActive, windowWasWorking, windowSeen, windowPromptSig,
                   windowDoneSig, windowActiveSig, windowActiveAt, windowTopic, now,
                   threshold, hc, cyc, fin>>

SpecCollect == InitCollect /\ [][CollectNext]_vars

\* the processes n generations below pid, as the stat files record parents
RECURSIVE Below(_, _)
Below(pid, n) ==
    IF n = 0 THEN {pid}
    ELSE LET above == Below(pid, n - 1)
         IN  {c \in Nodes : fin.parent[c] \in above}

TransitiveDescendants(pid) == UNION {Below(pid, n) : n \in 1..MaxNodes}

\* no process is a descendant of itself
Acyclic == \A k \in Nodes : k \notin TransitiveDescendants(k)

Returned == {fout.result[i] : i \in 1..Len(fout.result)}

\* C33: on an acyclic topology the loop of collectDescendants(pid) never
\* holds more processes, returned and queued together, than pid has
\* descendants, so it ends; once the queue is empty the result holds every
\* transitive descendant of pid exactly once and not pid, it is the empty
\* list when pid has no children, and it is what collectDescendants gives.
DescendantsOnceEach ==
    Acyclic =>
        /\ Len(fout.result) + Len(fout.queue) <= Cardinality(TransitiveDescendants(fin.pid))
        /\ Len(fout.queue) = 0 =>
               /\ Returned = TransitiveDescendants(fin.pid)
               /\ Len(fout.result) = Cardinality(Returned)
               /\ fin.pid \notin Returned
               /\ (Get(fin.childMap, fin.pid, << >>) = << >> => fout.result = << >>)
               /\ fout.result = collectDescendants(fin.pid, fin.childMap)

\* a chain three generations deep, walked to its end
ChainCollected ==
    /\ Acyclic
    /\ Len(fout.queue) = 0
    /\ Below(fin.pid, 3) # {}
    /\ Len(fout.result) = 3


---------------------------------------------------------------------------
(* The topic of a window, under Spec *)

\* the topic the capture of the last cycle gives for window w, or else the
\* one remembered before the cycle
TopicNow(w) ==
    IF /\ w \in DOMAIN cyc.cache
       /\ cyc.cache[w].ok
       /\ classifyPaneTopic(cyc.cache[w].content) # Empty
    THEN classifyPaneTopic(cyc.cache[w].content)
    ELSE cyc.topicBefore[w]

\* C34: after a cycle with panes, the status handed to setWindowStatus for
\* a listed window is its effective status followed by the topic of this
\* cycle's capture or, when the capture failed or gives no topic, by the
\* topic remembered before; that topic is the one remembered afterwards,
\* a listed window never loses its remembered topic, and no topic is
\* remembered for a window that is not listed.
RememberedTopicShown ==
    cyc.ran =>
        /\ \A w \in cyc.listed :
               /\ cyc.handed[w] =
                      formatStatusWithTopic(effectiveStatus(statusState, w, cyc.raw[w]),
                                            TopicNow(w))
               /\ Get(windowTopic, w, Empty) =
                      IF cyc.raw[w] # Empty THEN TopicNow(w) ELSE cyc.topicBefore[w]
        /\ DOMAIN windowTopic \subseteq cyc.listed

\* a failed capture, and the status still carries the topic of an earlier one
TopicKeptThroughFailedCapture ==
    /\ cyc.ran
    /\ \E w \in cyc.listed :
           /\ cyc.topicBefore[w] # Empty
           /\ w \in DOMAIN cyc.cache /\ ~cyc.cache[w].ok
           /\ cyc.raw[w] # Empty
           /\ cyc.handed[w] = cyc.raw[w] \o <<" ">> \o cyc.topicBefore[w]


---------------------------------------------------------------------------
(* The name of a window after a cycle, under Spec (threshold 1) *)

---------------------------------------------------------------------------
(* The unread flag from cycle to cycle, under Spec *)

\* C36: a window that was unread before a cycle with panes and is listed in
\* it is unread after the cycle exactly when it is neither focused nor
\* working in the cycle, its status empty or not; after such a cycle no
\* window that is not listed has a status record.
UnreadKeptUntilFocusOrWork ==
    cyc.ran =>
        /\ \A w \in cyc.listed :
               cyc.unreadBefore[w] =>
                   (isUnread(statusState, w)
                        <=> ~(cyc.focused[w] \/ isWorkingStatus(cyc.raw[w])))
        /\ \A w \in Windows \ cyc.listed : w \notin DOMAIN statusState

\* an unread window is listed without an agent, unfocused: still unread
UnreadKeptWithoutAgent ==
    /\ cyc.ran
    /\ \E w \in cyc.listed :
           /\ cyc.unreadBefore[w]
           /\ cyc.raw[w] = Empty
           /\ ~cyc.focused[w]
           /\ isUnread(statusState, w)


---------------------------------------------------------------------------
(* The daemon followed window by window.  fin[w] holds what the last      *)
(* cycles, up to three, found for window w since it was last missing from *)
(* the pane list, each with the records kept for w when the cycle began;  *)
(* fout holds the windows that were listed and then went missing.         *)

RecallScenes ==
    {[views |-> <<View("w1", "claude", FALSE)>>, capIn |-> [w \in {"w1"} |-> capture]] :
        capture \in {CaptureFail, Captured(ScreenBare), Captured(ScreenAsk),
                     Captured(ScreenSpin)}}
    \cup {[views |-> <<View("w1", "none", FALSE)>>, capIn |-> [w \in {"w1"} |-> CaptureFail]],
          [views |-> <<View("w2", "claude", FALSE)>>,
           capIn |-> [w \in {"w2"} |-> Captured(ScreenAsk)]]}

InitRecall ==
    /\ statusState = EmptyMap
    /\ lastActive = EmptyMap
    /\ windowWasWorking = EmptyMap
    /\ windowSeen = EmptyMap
    /\ windowPromptSig = EmptyMap
    /\ windowDoneSig = EmptyMap
    /\ windowActiveSig = EmptyMap
    /\ windowActiveAt = EmptyMap
    /\ windowTopic = EmptyMap
    /\ now = 0
    /\ threshold = stabilityThreshold
    /\ hc = NoCall
    /\ cyc = NoCycle
    /\ fin = EmptyMap
    /\ fout = {}

\* the last n entries of the sequence s
LastOf(s, n) == IF Len(s) <= n THEN s ELSE SubSeq(s, Len(s) - n + 1, Len(s))

\* the records kept for window w
RecordsOf(w) ==
    [known      |-> w \in UNION {DOMAIN statusState, DOMAIN lastActive,
                                 DOMAIN windowWasWorking, DOMAIN windowSeen,
                                 DOMAIN windowPromptSig, DOMAIN windowDoneSig,
                                 DOMAIN windowActiveSig, DOMAIN windowActiveAt,
                                 DOMAIN windowTopic},
     seen       |-> Get(windowSeen, w, FALSE),
     wasWorking |-> Get(windowWasWorking, w, FALSE),
     unread     |-> isUnread(statusState, w),
     applied    |-> Get(statusState, w, ZeroState).applied,
     promptSig  |-> Get(windowPromptSig, w, Empty),
     doneSig    |-> Get(windowDoneSig, w, Empty),
     topic      |-> Get(windowTopic, w, Empty)]

\* what the cycle c found for the listed window w
FoundFor(c, w, before) ==
    [focused |-> c.focused[w],
     raw     |-> c.raw[w],
     capture |-> IF w \in DOMAIN c.cache THEN <<c.cache[w]>> ELSE << >>,
     marked  |-> c.marked[w],
     handed  |-> c.handed[w],
     renamed |-> \E i \in 1..Len(c.calls) : c.calls[i] = RenameCall(w, c.handed[w]),
     before  |-> before]

Recall(scene) ==
    /\ now < MaxCycles * PollInterval
    /\ Advance(ListingOf(scene.views), ProcTableOf(scene.views), scene.capIn,
               <<scene.views[1].window>>, PollInterval)
    /\ fin' = [w \in WindowsOf(scene.views) |->
                  LastOf(Get(fin, w, << >>), 2) \o <<FoundFor(cyc', w, RecordsOf(w))>>]
    /\ fout' = fout \cup (DOMAIN fin \ WindowsOf(scene.views))
    /\ UNCHANGED <<threshold, hc>>

NextRecall == \E scene \in RecallScenes : Recall(scene)

SpecRecall == InitRecall /\ [][NextRecall]_vars

\* the entry of a cycle shows window w unfocused with an idle status
QuietIn(e) == ~e.focused /\ e.raw # Empty /\ ~isWorkingStatus(e.raw)

\* C37: when a window is found unfocused and idle in three cycles in a row,
\* the capture of the second fails and the captures of the first and third
\* succeed with the same text, the third cycle does not mark the window
\* unread.
CaptureMissNotNew ==
    \A w \in DOMAIN fin :
        (/\ Len(fin[w]) = 3
         /\ \A k \in 1..3 : QuietIn(fin[w][k])
         /\ fin[w][2].capture = <<CaptureFail>>
         /\ fin[w][1].capture # <<CaptureFail>>
         /\ fin[w][3].capture = fin[w][1].capture)
            => ~fin[w][3].marked

\* the capture of the entry shows a bare prompt: a prompt signature without
\* text, no completion banner
BarePromptIn(e) ==
    /\ Len(e.capture) = 1 /\ e.capture[1].ok
    /\ classifyPaneAttentionSignature(e.capture[1].content) # Empty
    /\ ~hasPromptText(classifyPaneAttentionSignature(e.capture[1].content))
    /\ classifyPaneCompletionSignature(e.capture[1].content) = Empty

\* C40: when a window found without an agent in the cycles before is found
\* unfocused with an agent idle at a bare prompt, the cycle does not mark it
\* unread.
AgentAtBarePromptStaysRead ==
    \A w \in DOMAIN fin :
        (/\ Len(fin[w]) >= 2
         /\ \A k \in 1..(Len(fin[w]) - 1) : fin[w][k].raw = Empty
         /\ QuietIn(fin[w][Len(fin[w])])
         /\ BarePromptIn(fin[w][Len(fin[w])]))
            => ~fin[w][Len(fin[w])].marked

\* the records of a window no cycle has listed
NoRecords ==
    [known |-> FALSE, seen |-> FALSE, wasWorking |-> FALSE, unread |-> FALSE,
     applied |-> Empty, promptSig |-> Empty, doneSig |-> Empty, topic |-> Empty]

\* the prompt signature of the capture of the entry, empty without capture
PromptSigIn(e) ==
    IF Len(e.capture) = 1 /\ e.capture[1].ok
    THEN classifyPaneAttentionSignature(e.capture[1].content)
    ELSE Empty

\* C39: after a cycle with panes no record is kept for a window that is not
\* listed; a window listed after it was missing from the list of the cycle
\* before is met with the records of a window never listed, it is marked
\* unread only as on a first observation (unfocused, idle, prompt with
\* text), and tmux is called for its non-empty status.
MissingWindowForgotten ==
    /\ cyc.ran => \A w \in Windows \ cyc.listed : ~RecordsOf(w).known
    /\ \A w \in DOMAIN fin :
           Len(fin[w]) = 1 =>
               /\ fin[w][1].before = NoRecords
               /\ fin[w][1].marked =
                      (QuietIn(fin[w][1]) /\ hasPromptText(PromptSigIn(fin[w][1])))
               /\ fin[w][1].handed # Empty => fin[w][1].renamed

\* window w1 is listed, missing, and listed again with the status it had
\* before: renamed again
ListedAgainRenamed ==
    /\ "w1" \in fout
    /\ "w1" \in DOMAIN fin
    /\ Len(fin["w1"]) = 1
    /\ fin["w1"][1].handed # Empty
    /\ fin["w1"][1].renamed


---------------------------------------------------------------------------
(* Two windows in every cycle.  Beside the cycle the daemon runs, the     *)
(* model computes the same cycle with the panes listed in the other order *)
(* and the windows taken from the map in either order (fout), and what    *)
(* the evaluation of one window changes for the other window (fin).       *)

\* what a cycle leaves: the maps, the statuses handed over, the unread
\* decisions and the tmux commands run
OrderResult(W) ==
    [ss |-> W.ss, lastActive |-> W.lastActive, wasWorking |-> W.wasWorking,
     seen |-> W.seen, promptSig |-> W.promptSig, doneSig |-> W.doneSig,
     activeSig |-> W.activeSig, activeAt |-> W.activeAt, topic |-> W.topic,
     handed |-> W.handed, marked |-> W.marked,
     calls |-> {W.calls[i] : i \in 1..Len(W.calls)}]

CycleResults(a, b) ==
    {OrderResult(updateAllPanes(Maps, ListingOf(scene.views), ProcTableOf(scene.views),
                                scene.capIn, order, now)) :
        scene \in {Both(a, b), Both(b, a)}, order \in Orders(Windows)}

\* the entries of window v in the per-window maps
EntriesOf(W, v) ==
    [f \in {"ss", "lastActive", "wasWorking", "seen", "promptSig", "doneSig",
            "activeSig", "activeAt", "topic"} |->
        IF v \in DOMAIN W[f] THEN <<W[f][v]>> ELSE << >>]

\* the maps after the first loop of the cycle
Summarized(scene) ==
    statusLoop(Maps, listPanes(ListingOf(scene.views)), 1, ProcTableOf(scene.views),
               buildChildMap(ProcTableOf(scene.views)), scene.capIn, now)

\* the pairs <<w, v>> where the body of the second loop for window w
\* changes an entry of another window v
TouchedByApply(scene) ==
    {p \in Windows \X Windows :
        /\ p[1] # p[2]
        /\ EntriesOf(applyWindow(Summarized(scene), p[1],
                                 Summarized(scene).summaries[p[1]].status,
                                 Summarized(scene).summaries[p[1]].focused,
                                 scene.capIn), p[2])
               # EntriesOf(Summarized(scene), p[2])}

\* the pairs <<w, v>> where getStatus for the pane of window w changes an
\* entry of another window v
TouchedByStatus(scene) ==
    {p \in Windows \X Windows :
        /\ p[1] # p[2]
        /\ \E i \in 1..Len(scene.views) :
               /\ scene.views[i].window = p[1]
               /\ EntriesOf(getStatus(Maps, p[1], Shell(i), ProcTableOf(scene.views),
                                      buildChildMap(ProcTableOf(scene.views)),
                                      scene.capIn, now).W, p[2])
                      # EntriesOf(Maps, p[2])}

InitOrder ==
    /\ statusState = EmptyMap
    /\ lastActive = EmptyMap
    /\ windowWasWorking = EmptyMap
    /\ windowSeen = EmptyMap
    /\ windowPromptSig = EmptyMap
    /\ windowDoneSig = EmptyMap
    /\ windowActiveSig = EmptyMap
    /\ windowActiveAt = EmptyMap
    /\ windowTopic = EmptyMap
    /\ now = 0
    /\ threshold = stabilityThreshold
    /\ hc = NoCall
    /\ cyc = NoCycle
    /\ fin = [apply |-> {}, status |-> {}]
    /\ fout = {}

TwoWindows(a, b) ==
    /\ now < MaxCycles * PollInterval
    /\ Advance(ListingOf(Both(a, b).views), ProcTableOf(Both(a, b).views), Both(a, b).capIn,
               <<"w1", "w2">>, PollInterval)
    /\ fout' = CycleResults(a, b)
    /\ fin' = [apply |-> TouchedByApply(Both(a, b)), status |-> TouchedByStatus(Both(a, b))]
    /\ UNCHANGED <<threshold, hc>>

NextOrder == \E a \in BesideSecond, b \in SecondWindow : TwoWindows(a, b)

SpecOrder == InitOrder /\ [][NextOrder]_vars

\* what the cycle the daemon ran has left
RanResult ==
    [ss |-> statusState, lastActive |-> lastActive, wasWorking |-> windowWasWorking,
     seen |-> windowSeen, promptSig |-> windowPromptSig, doneSig |-> windowDoneSig,
     activeSig |-> windowActiveSig, activeAt |-> windowActiveAt, topic |-> windowTopic,
     handed |-> cyc.handed, marked |-> cyc.marked,
     calls |-> {cyc.calls[i] : i \in 1..Len(cyc.calls)}]

\* C38: in a cycle, neither getStatus for a pane of a window nor the body
\* of the second loop for a window changes the entries of another window in
\* the per-window maps, and the cycle leaves the same maps, statuses,
\* unread decisions and tmux commands whichever window is listed first and
\* whichever is taken first from the map of summaries.
WindowsEvaluatedApart ==
    cyc.ran =>
        /\ fin.apply = {}
        /\ fin.status = {}
        /\ fout = {RanResult}

\* a cycle that marks w2 unread while w1 is focused, the second after both
\* had their records
TwoWindowsDecidedApart ==
    /\ cyc.ran
    /\ cyc.listed = Windows
    /\ cyc.focused["w1"] /\ cyc.unreadBefore["w1"]
    /\ cyc.marked["w2"]
    /\ isUnread(statusState, "w2") /\ ~isUnread(statusState, "w1")
    /\ fout = {RanResult}

=============================================================================
